---- MODULE Spec2Model ----
(***************************************************************************)
(* Linear-regression visualiser (React component LinearRegression) as a    *)
(* state machine.  Two variants of the component are modelled:             *)
(*   "spiral"  src/src/pages/LinearRegression.tsx  (requestAnimationFrame  *)
(*             loop with a decaying spiral perturbation)                   *)
(*   "trace"   src/unnamed/part_001 (step timers walking over a synthetic  *)
(*             point sequence)                                             *)
(* The page CNNVisualizer (src/src/pages/CNNVisualizer.tsx) is a third     *)
(* component, "cnn", held in the variable cnn.                             *)
(* A JavaScript number is an IEEE-754 binary64 value, held as the record    *)
(* described below; null is the empty tuple.  A rational <<num, den>> with  *)
(* den > 0 and gcd(num, den) = 1 writes a decimal literal; Double gives the *)
(* double the literal denotes.                                              *)
(* One action is one handler/callback run to completion together with the  *)
(* re-render and the effects React runs after it.                          *)
(***************************************************************************)
EXTENDS Integers, Sequences, FiniteSets, TLC

----------------------------------------------------------------------------
(* Numbers *)

Null == <<>>

\* F(v) with v computed first: TLC computes the argument of an operator only
\* where the operator uses it, and a long chain of pending uses is deep
With(v, F(_)) == [x \in {v} |-> F(x)][v]

Abs(n) == IF n < 0 THEN -n ELSE n

RECURSIVE GCD(_, _)
GCD(a, b) == IF b = 0 THEN a ELSE GCD(b, a % b)

RatOver(n, d, g) == <<n \div g, d \div g>>
\* the fraction n / d in lowest terms with a positive denominator
Rat(n, d) ==
    IF d < 0 THEN RatOver(-n, -d, GCD(Abs(n), -d))
    ELSE RatOver(n, d, GCD(Abs(n), d))

Num(n) == <<n, 1>>
Zero == Num(0)
One == Num(1)

----------------------------------------------------------------------------
(* Pure functions of the component *)

PADDING == 48
CanvasH == 420
CanvasW == 696

Pt(x, y) == [x |-> x, y |-> y]

----------------------------------------------------------------------------
(* IEEE-754 binary64: the numbers of JavaScript.
   A natural number of any size is a sequence of limbs, least significant
   first, in base 2^15, without leading zero limbs; a finite double is
   [s, m, e] with value s * m * 2^e, s = 1 or -1, and m an odd natural of at
   most 53 bits; 0 and -0 are m = <<>>, e = 0 with s = 1 and s = -1; NaN is
   s = 0, e = 0 and Infinity / -Infinity s = 0 with e = 1 / e = -1.  Every
   operation is the exact operation followed by the rounding to nearest, ties
   to even, in the range of binary64: a result of 2^1024 or more is an
   infinity, and below 2^-1022 the last place is 2^-1074.  Two numbers are
   the same value for Object.is exactly when their records are equal. *)

LimbBits == 15
Limb == 32768
MantissaBits == 53

\* 2^k for k <= 30, the number of bits of a limb and the number of trailing
\* zero bits of a limb that is not 0: each is computed once
RECURSIVE Doubled(_)
Doubled(k) == IF k = 0 THEN 1 ELSE 2 * Doubled(k - 1)
Pow2s == [k \in 0..30 |-> Doubled(k)]
Pow2(k) == Pow2s[k]

RECURSIVE BitsOf(_)
BitsOf(n) == IF n = 0 THEN 0 ELSE 1 + BitsOf(n \div 2)
BitLens == [n \in 0..(Limb - 1) |-> BitsOf(n)]
BitLenSmall(n) == BitLens[n]

RECURSIVE ZerosOf(_)
ZerosOf(n) == IF n % 2 = 1 THEN 0 ELSE 1 + ZerosOf(n \div 2)
ZeroCounts == [n \in 1..(Limb - 1) |-> ZerosOf(n)]
TrailingZeros(n) == ZeroCounts[n]

BLimb(a, i) == IF i <= Len(a) THEN a[i] ELSE 0

\* The recursions over the limbs of a number halve the range of limbs, so
\* that the depth of an evaluation grows with the logarithm of the length.

\* the highest position in lo..hi of a limb of a that is not 0, or 0
RECURSIVE TopLimb(_, _, _)
TopLimb(a, lo, hi) ==
    IF lo = hi THEN (IF a[lo] # 0 THEN lo ELSE 0)
    ELSE With(TopLimb(a, (lo + hi) \div 2 + 1, hi),
              LAMBDA t : IF t # 0 THEN t ELSE TopLimb(a, lo, (lo + hi) \div 2))
\* the lowest position in lo..hi of a limb of a that is not 0, or 0
RECURSIVE LowLimb(_, _, _)
LowLimb(a, lo, hi) ==
    IF lo = hi THEN (IF a[lo] # 0 THEN lo ELSE 0)
    ELSE With(LowLimb(a, lo, (lo + hi) \div 2),
              LAMBDA t : IF t # 0 THEN t ELSE LowLimb(a, (lo + hi) \div 2 + 1, hi))

BTrim(a) ==
    IF a = <<>> \/ a[Len(a)] # 0 THEN a ELSE SubSeq(a, 1, TopLimb(a, 1, Len(a)))

\* the limbs of the low half followed by those of the other half r, with the
\* carry r ends with
Joined(low, r) == <<low \o r[1], r[2]>>

\* the limbs lo..hi of a + b + carry and the carry out of them
RECURSIVE BAddRange(_, _, _, _, _)
BAddRange(a, b, lo, hi, carry) ==
    IF lo = hi
    THEN <<<<(BLimb(a, lo) + BLimb(b, lo) + carry) % Limb>>,
           (BLimb(a, lo) + BLimb(b, lo) + carry) \div Limb>>
    ELSE With(BAddRange(a, b, lo, (lo + hi) \div 2, carry),
              LAMBDA l : Joined(l[1], BAddRange(a, b, (lo + hi) \div 2 + 1, hi, l[2])))
WithCarry(r) == IF r[2] = 0 THEN r[1] ELSE Append(r[1], r[2])
BAdd(a, b) ==
    IF a = <<>> THEN b
    ELSE IF b = <<>> THEN a
    ELSE WithCarry(BAddRange(a, b, 1, IF Len(a) > Len(b) THEN Len(a) ELSE Len(b), 0))

\* the limbs lo..hi of a - b - borrow and the borrow out of them, for a >= b
RECURSIVE BSubRange(_, _, _, _, _)
BSubRange(a, b, lo, hi, borrow) ==
    IF lo = hi
    THEN <<<<(a[lo] - BLimb(b, lo) - borrow + Limb) % Limb>>,
           IF a[lo] - BLimb(b, lo) - borrow < 0 THEN 1 ELSE 0>>
    ELSE With(BSubRange(a, b, lo, (lo + hi) \div 2, borrow),
              LAMBDA l : Joined(l[1], BSubRange(a, b, (lo + hi) \div 2 + 1, hi, l[2])))
BSub(a, b) == IF a = <<>> THEN <<>> ELSE BTrim(BSubRange(a, b, 1, Len(a), 0)[1])

\* the limbs lo..hi of a * k + carry and the carry out of them, for
\* 0 < k <= 2^15
RECURSIVE BMulSmallRange(_, _, _, _, _)
BMulSmallRange(a, k, lo, hi, carry) ==
    IF lo = hi
    THEN <<<<(a[lo] * k + carry) % Limb>>, (a[lo] * k + carry) \div Limb>>
    ELSE With(BMulSmallRange(a, k, lo, (lo + hi) \div 2, carry),
              LAMBDA l : Joined(l[1], BMulSmallRange(a, k, (lo + hi) \div 2 + 1, hi, l[2])))
\* a * k for 0 <= k <= 2^15
BMulSmall(a, k) ==
    IF k = 0 \/ a = <<>> THEN <<>>
    ELSE WithCarry(BMulSmallRange(a, k, 1, Len(a), 0))

BShlLimbs(a, n) == IF a = <<>> THEN <<>> ELSE [i \in 1..n |-> 0] \o a

\* a times the limbs lo..hi of b, each at its place
RECURSIVE BMulRange(_, _, _, _)
BMulRange(a, b, lo, hi) ==
    IF lo = hi THEN BShlLimbs(BMulSmall(a, b[lo]), lo - 1)
    ELSE With(BMulRange(a, b, lo, (lo + hi) \div 2),
              LAMBDA l : BAdd(l, BMulRange(a, b, (lo + hi) \div 2 + 1, hi)))
BMul(a, b) ==
    IF a = <<>> \/ b = <<>> THEN <<>>
    ELSE BMulRange(a, b, 1, Len(b))

\* -1, 0 or 1 as the limbs lo..hi of a are below, equal to or above those of b
RECURSIVE BCmpRange(_, _, _, _)
BCmpRange(a, b, lo, hi) ==
    IF lo = hi
    THEN (IF a[lo] = b[lo] THEN 0 ELSE IF a[lo] < b[lo] THEN -1 ELSE 1)
    ELSE With(BCmpRange(a, b, (lo + hi) \div 2 + 1, hi),
              LAMBDA c : IF c # 0 THEN c ELSE BCmpRange(a, b, lo, (lo + hi) \div 2))
\* -1, 0 or 1 as a < b, a = b or a > b
BCmp(a, b) ==
    IF Len(a) # Len(b) THEN (IF Len(a) < Len(b) THEN -1 ELSE 1)
    ELSE IF a = <<>> THEN 0
    ELSE BCmpRange(a, b, 1, Len(a))

\* a * 2^k
BShl(a, k) == BShlLimbs(BMulSmall(a, Pow2(k % LimbBits)), k \div LimbBits)

\* the limbs of the high half r after those of the low half, with the
\* remainder the low half ends with
JoinedBelow(r, low) == <<low[1] \o r[1], low[2]>>

\* the limbs lo..hi of (rem * 2^(15 * hi) + a) \div d for 0 < d <= 2^15, from
\* the limb hi down, and the remainder below them
RECURSIVE BDivSmallRange(_, _, _, _, _)
BDivSmallRange(a, d, lo, hi, rem) ==
    IF lo = hi
    THEN <<<<(rem * Limb + a[lo]) \div d>>, (rem * Limb + a[lo]) % d>>
    ELSE With(BDivSmallRange(a, d, (lo + hi) \div 2 + 1, hi, rem),
              LAMBDA h : JoinedBelow(h, BDivSmallRange(a, d, lo, (lo + hi) \div 2, h[2])))
\* a \div d for 0 < d <= 2^15
BDivSmall(a, d) ==
    IF a = <<>> THEN <<>>
    ELSE BTrim(BDivSmallRange(a, d, 1, Len(a), 0)[1])

\* a \div 2^k
BShr(a, k) ==
    BDivSmall(SubSeq(a, (k \div LimbBits) + 1, Len(a)), Pow2(k % LimbBits))

BBitLen(a) ==
    IF a = <<>> THEN 0 ELSE LimbBits * (Len(a) - 1) + BitLenSmall(a[Len(a)])

BIsOdd(a) == a # <<>> /\ a[1] % 2 = 1

\* the largest d with d * b <= r, for r < b * 2^15, found downwards from d
RECURSIVE DigitFrom(_, _, _)
DigitFrom(r, b, d) ==
    IF d = 0 \/ BCmp(BMulSmall(b, d), r) <= 0 THEN d ELSE DigitFrom(r, b, d - 1)

\* the two top limbs of r over the top limb of b: when that limb has its
\* highest bit set, at most 2 above the digit
DigitAbove(r, b) ==
    (BLimb(r, Len(b) + 1) * Limb + BLimb(r, Len(b))) \div b[Len(b)]

DigitFor(r, b) ==
    DigitFrom(r, b, IF DigitAbove(r, b) < Limb THEN DigitAbove(r, b) ELSE Limb - 1)

\* long division of a by b # 0 from the limb i down, with the quotient limbs q
\* found so far and the remainder r of the limbs above: <<quotient, remainder>>
RECURSIVE BDivFrom(_, _, _, _, _)
BDivDigit(a, b, i, q, r, d) ==
    IF d = 0 THEN BDivFrom(a, b, i - 1, <<0>> \o q, r)
    ELSE BDivFrom(a, b, i - 1, <<d>> \o q, BSub(r, BMulSmall(b, d)))
BDivStep(a, b, i, q, r) == BDivDigit(a, b, i, q, r, DigitFor(r, b))
BDivFrom(a, b, i, q, r) ==
    IF i = 0 THEN <<BTrim(q), r>>
    ELSE BDivStep(a, b, i, q, BTrim(<<a[i]>> \o r))

\* both operands times 2^s, which sets the highest bit of the top limb of b:
\* the quotient is the same and the remainder is 2^s times larger
\* the top Len(b) - 1 limbs of a are below b: they start the remainder
BDivLimbs(a, b) ==
    IF Len(a) < Len(b) THEN <<<<>>, a>>
    ELSE BDivFrom(a, b, Len(a) - Len(b) + 1, <<>>,
                  BTrim(SubSeq(a, Len(a) - Len(b) + 2, Len(a))))
BDivScaled(a, b, s) == BDivLimbs(BShl(a, s), BShl(b, s))
BDivUnscaled(qr, s) == <<qr[1], BShr(qr[2], s)>>
BDivBy(a, b, s) == BDivUnscaled(BDivScaled(a, b, s), s)
BDivMod(a, b) == BDivBy(a, b, LimbBits - BitLenSmall(b[Len(b)]))

\* the natural number n < 2^31 as limbs
BNat(n) == BTrim(<<n % Limb, (n \div Limb) % Limb, n \div (Limb * Limb)>>)

Zero64 == [s |-> 1, m |-> <<>>, e |-> 0]
NaN64 == [s |-> 0, m |-> <<>>, e |-> 0]
\* Infinity (sign 1) and -Infinity (sign -1)
Inf64(sign) == [s |-> 0, m |-> <<>>, e |-> sign]
\* 0 (sign 1) and -0 (sign -1)
SignedZero64(sign) == [s |-> sign, m |-> <<>>, e |-> 0]
IsNaN64(a) == a.s = 0 /\ a.e = 0
IsInf64(a) == a.s = 0 /\ a.e # 0
IsFinite64(a) == a.s # 0
\* a === 0
IsZero64(a) == a.s # 0 /\ a.m = <<>>
\* 1 or -1: the sign of a number that is not NaN
SignOf(a) == IF a.s = 0 THEN a.e ELSE a.s
\* a === b
FEq(a, b) == ~IsNaN64(a) /\ (a = b \/ (IsZero64(a) /\ IsZero64(b)))

\* s * m * 2^e with the trailing zero bits of m moved into the exponent
CanonFrom(s, m, e, low) ==
    IF low = 0 THEN SignedZero64(s)
    ELSE [s |-> s,
          m |-> BDivSmall(SubSeq(m, low, Len(m)), Pow2(TrailingZeros(m[low]))),
          e |-> e + LimbBits * (low - 1) + TrailingZeros(m[low])]
Canon(s, m, e) ==
    IF m = <<>> THEN SignedZero64(s)
    ELSE CanonFrom(s, m, e, IF m[1] # 0 THEN 1 ELSE LowLimb(m, 1, Len(m)))

\* c compares the dropped bits with one half of the last kept bit
RoundsUp(c, sticky, odd) == c > 0 \/ (c = 0 /\ (sticky \/ odd))

\* the k low bits of m are 0
LowBitsZero(m, k) ==
    /\ \A i \in 1..(k \div LimbBits) : m[i] = 0
    /\ BLimb(m, k \div LimbBits + 1) % Pow2(k % LimbBits) = 0
\* the bit of m at position k, counted from 0
BitAt(m, k) == (BLimb(m, k \div LimbBits + 1) \div Pow2(k % LimbBits)) % 2
\* 1, 0 or -1 as the d low bits of m are above, equal to or below 2^(d - 1)
DroppedCmp(m, d) ==
    IF BitAt(m, d - 1) = 0 THEN -1 ELSE IF LowBitsZero(m, d - 1) THEN 0 ELSE 1

\* m without its d low bits is q: q, or q + 1 when the dropped bits round up
RoundPut(m, sticky, d, q) ==
    IF RoundsUp(DroppedCmp(m, d), sticky, BIsOdd(q)) THEN BAdd(q, <<1>>) ELSE q

RoundAt(m, sticky, d) == RoundPut(m, sticky, d, BShr(m, d))

\* a magnitude of 2^1024 or more is an infinity
Ranged(r) == IF r.m # <<>> /\ BBitLen(r.m) + r.e > 1024 THEN Inf64(r.s) ELSE r

\* the number of low bits of m * 2^e a double cannot hold: those beyond 53
\* bits and those below 2^-1074
DroppedBits(m, e) ==
    IF BBitLen(m) - MantissaBits > -1074 - e THEN BBitLen(m) - MantissaBits
    ELSE -1074 - e

\* the double nearest to s * m * 2^e (ties to even); sticky tells that the
\* exact value is a little above m * 2^e
\* (with more dropped bits than m has, the value is below half of 2^-1074)
Round64Dropping(s, m, e, sticky, d) ==
    IF d > 0 /\ d > BBitLen(m) THEN SignedZero64(s)
    ELSE Ranged(Canon(s, IF d <= 0 THEN m ELSE RoundAt(m, sticky, d),
                      IF d <= 0 THEN e ELSE e + d))
Round64(s, m, e, sticky) ==
    IF m = <<>> THEN SignedZero64(s)
    ELSE With(DroppedBits(m, e), LAMBDA d : Round64Dropping(s, m, e, sticky, d))

\* -a
FNeg(a) ==
    IF a.s = 0 THEN (IF a.e = 0 THEN a ELSE Inf64(-a.e)) ELSE [a EXCEPT !.s = -a.s]

\* a + b with both mantissas brought to the exponent e, where c compares
\* them: the sum of the magnitudes under the common sign, or the difference
\* under the sign of the larger one, and 0 when they cancel
FAddSign(a, b, c) == IF a.s = b.s \/ c > 0 THEN a.s ELSE IF c = 0 THEN 1 ELSE b.s
FAddLimbs(a, b, ma, mb, c) ==
    IF a.s = b.s THEN BAdd(ma, mb)
    ELSE BSub(IF c >= 0 THEN ma ELSE mb, IF c >= 0 THEN mb ELSE ma)
FAddAt(a, b, e, ma, mb) ==
    With(IF a.s = b.s THEN 0 ELSE BCmp(ma, mb),
         LAMBDA c : Round64(FAddSign(a, b, c), FAddLimbs(a, b, ma, mb, c), e, FALSE))

FAddTo(a, b, e) == FAddAt(a, b, e, BShl(a.m, a.e - e), BShl(b.m, b.e - e))

\* the position above the highest bit of a
TopBit(a) == a.e + BBitLen(a.m)

\* a + b for finite a and b: -0 + -0 is -0, every other sum of zeros is 0;
\* an operand below 2^-64 of the other is far below half of its last place
FAddFinite(a, b) ==
    IF a.m = <<>> THEN (IF b.m # <<>> \/ a.s = b.s THEN b ELSE Zero64)
    ELSE IF b.m = <<>> THEN a
    ELSE IF TopBit(a) > TopBit(b) + 64 THEN a
    ELSE IF TopBit(b) > TopBit(a) + 64 THEN b
    ELSE FAddTo(a, b, IF a.e < b.e THEN a.e ELSE b.e)

\* a + b
FAdd(a, b) ==
    IF IsNaN64(a) \/ IsNaN64(b) THEN NaN64
    ELSE IF IsInf64(a) THEN (IF IsInf64(b) /\ b.e # a.e THEN NaN64 ELSE a)
    ELSE IF IsInf64(b) THEN b
    ELSE FAddFinite(a, b)

\* a - b
FSub(a, b) == FAdd(a, FNeg(b))

\* a * b
FMul(a, b) ==
    IF IsNaN64(a) \/ IsNaN64(b) THEN NaN64
    ELSE IF IsInf64(a) \/ IsInf64(b)
    THEN (IF IsZero64(a) \/ IsZero64(b) THEN NaN64 ELSE Inf64(SignOf(a) * SignOf(b)))
    ELSE IF a.m = <<>> \/ b.m = <<>> THEN SignedZero64(a.s * b.s)
    ELSE Round64(a.s * b.s, BMul(a.m, b.m), a.e + b.e, FALSE)

\* the quotient of the mantissas with k more bits, then the rounding
FDivPut(a, b, k, qr) == Round64(a.s * b.s, qr[1], a.e - b.e - k, qr[2] # <<>>)
FDivBy(a, b, k) == FDivPut(a, b, k, BDivMod(BShl(a.m, k), b.m))
\* a / b
FDiv(a, b) ==
    IF IsNaN64(a) \/ IsNaN64(b) THEN NaN64
    ELSE IF IsInf64(a) THEN (IF IsInf64(b) THEN NaN64 ELSE Inf64(a.e * b.s))
    ELSE IF IsInf64(b) THEN SignedZero64(a.s * b.e)
    ELSE IF b.m = <<>> THEN (IF a.m = <<>> THEN NaN64 ELSE Inf64(a.s * b.s))
    ELSE IF a.m = <<>> THEN SignedZero64(a.s * b.s)
    ELSE FDivBy(a, b, IF BBitLen(a.m) >= BBitLen(b.m) + MantissaBits + 3 THEN 0
                      ELSE BBitLen(b.m) + MantissaBits + 3 - BBitLen(a.m))

\* the integer n as a double
FInt(n) == Canon(IF n < 0 THEN -1 ELSE 1, BNat(Abs(n)), 0)

\* the double a decimal literal denotes: the one nearest to the rational r
Double(r) == FDiv(FInt(r[1]), FInt(r[2]))

\* a < b, from a - b: false when it is NaN (an operand is NaN, or both are
\* the same infinity)
Negative64(r) == IF r.s = 0 THEN r.e = -1 ELSE r.m # <<>> /\ r.s = -1
FLt(a, b) == Negative64(FSub(a, b))
\* a <= b
FLe(a, b) == FLt(a, b) \/ FEq(a, b)
\* Math.abs
FAbs(a) ==
    IF a.s = 0 THEN (IF a.e = 0 THEN a ELSE Inf64(1)) ELSE [a EXCEPT !.s = 1]
\* Math.max(a, b), Math.min(a, b): NaN when an operand is NaN; 0 is above -0
FMax(a, b) ==
    IF IsNaN64(a) \/ IsNaN64(b) THEN NaN64
    ELSE IF FLt(a, b) THEN b
    ELSE IF FLt(b, a) THEN a
    ELSE IF IsZero64(a) /\ a.s = -1 THEN b ELSE a
FMin(a, b) ==
    IF IsNaN64(a) \/ IsNaN64(b) THEN NaN64
    ELSE IF FLt(b, a) THEN b
    ELSE IF FLt(a, b) THEN a
    ELSE IF IsZero64(a) /\ a.s = 1 THEN b ELSE a

\* the integer part of the magnitude of a, for a with a fraction (a.e < 0)
IntPart(a) == IF -a.e >= BBitLen(a.m) THEN <<>> ELSE BShr(a.m, -a.e)
\* Math.floor(a), Math.ceil(a)
FFloor(a) ==
    IF a.m = <<>> \/ a.e >= 0 THEN a
    ELSE IF a.s = 1 THEN Canon(1, IntPart(a), 0)
    ELSE Canon(-1, BAdd(IntPart(a), <<1>>), 0)
FCeil(a) ==
    IF a.m = <<>> \/ a.e >= 0 THEN a
    ELSE IF a.s = 1 THEN Canon(1, BAdd(IntPart(a), <<1>>), 0)
    ELSE Canon(-1, IntPart(a), 0)

\* 10^k as a big natural, by squaring
RECURSIVE BPow10(_)
BPow10(k) ==
    IF k = 0 THEN <<1>>
    ELSE IF k % 2 = 1 THEN BMulSmall(BPow10(k - 1), 10)
    ELSE With(BPow10(k \div 2), LAMBDA h : BMul(h, h))

\* the double a numeric literal denotes: a fraction <<n, d>>, or <<n, 1, k>>
\* for the integer n * 10^k
Number64(c) ==
    IF Len(c) = 2 THEN Double(c)
    ELSE Round64(IF c[1] < 0 THEN -1 ELSE 1, BMul(BNat(Abs(c[1])), BPow10(c[3])), 0, FALSE)

\* the double nearest to s * n / d, for naturals n and d # 0
FDivNat(s, n, d) ==
    IF n = <<>> THEN SignedZero64(s)
    ELSE FDivBy([s |-> s, m |-> n, e |-> 0], [s |-> 1, m |-> d, e |-> 0],
                IF BBitLen(n) >= BBitLen(d) + MantissaBits + 3 THEN 0
                ELSE BBitLen(d) + MantissaBits + 3 - BBitLen(n))

(* Number.prototype.toFixed(4) and Number of its text.  The text of a decimal
   with four places is held as the sign it starts with and the natural number
   n its digits write without the point (the decimal is n / 10^4); for a
   number that is not finite or is 10^21 or more toFixed returns String of
   the number, held as the number. *)
TenTo4 == BPow10(4)
TenTo21 == BPow10(21)

\* n / 2^k rounded to the nearest integer, a half goes up
HalfUp(n, k) ==
    IF k > BBitLen(n) THEN <<>>
    ELSE With(BShr(n, k),
              LAMBDA q : IF BCmp(BShl(BSub(n, BShl(q, k)), 1), BShl(<<1>>, k)) >= 0
                         THEN BAdd(q, <<1>>) ELSE q)

\* "Let n be an integer for which n / 10^f - x is as close to zero as
\* possible. If there are two such n, pick the larger n", for x = |a|
Fixed4Digits(a) ==
    IF a.e >= 0 THEN BShl(BMul(a.m, TenTo4), a.e) ELSE HalfUp(BMul(a.m, TenTo4), -a.e)

\* |a| >= 10^21
AtLeast1e21(a) == a.e >= 0 /\ (a.e >= 70 \/ BCmp(BShl(a.m, a.e), TenTo21) >= 0)

\* a.toFixed(4); -0 and a negative number that rounds to 0 differ: "0.0000"
\* and "-0.0000"
Fixed4Text(a) ==
    IF ~IsFinite64(a) \/ AtLeast1e21(a) THEN [number |-> a]
    ELSE [neg |-> a.s = -1 /\ a.m # <<>>, n |-> Fixed4Digits(a)]

\* Number(t) for a text t of toFixed(4): the double nearest to the decimal
NumberOfFixed(t) ==
    IF "number" \in DOMAIN t THEN t.number
    ELSE FDivNat(IF t.neg THEN -1 ELSE 1, t.n, TenTo4)

\* Number(a.toFixed(4))
ToFixed4(a) == NumberOfFixed(Fixed4Text(a))

(* Math.pow, Math.cos, Math.sin and Math.hypot are implementation-
   approximated: the result is one of the two doubles around the exact value
   (the value itself when it is a double); which one is left open. *)
TowardZero(s, m, e, d) == Canon(s, BShr(m, d), e + d)
AwayFromZero(s, m, e, d) ==
    IF BShl(BShr(m, d), d) = m THEN Canon(s, BShr(m, d), e + d)
    ELSE Canon(s, BAdd(BShr(m, d), <<1>>), e + d)
\* of the two doubles around s * m * 2^e the one away from zero or toward it
Bracket(s, m, e, away) ==
    IF DroppedBits(m, e) <= 0 THEN Ranged(Canon(s, m, e))
    ELSE IF away THEN Ranged(AwayFromZero(s, m, e, DroppedBits(m, e)))
    ELSE Ranged(TowardZero(s, m, e, DroppedBits(m, e)))
\* the same for a value a little above s * m * 2^e in magnitude when sticky
BracketSticky(s, m, e, sticky, away) ==
    IF sticky THEN Bracket(s, BAdd(BShl(m, 60), <<1>>), e - 60, away)
    ELSE Bracket(s, m, e, away)
\* the same for a value a little below s * m * 2^e in magnitude
JustBelow(s, m, e, away) == Bracket(s, BSub(BShl(m, 60), <<1>>), e - 60, away)

\* Math.pow(x, 3)
PowCube64(x, away) ==
    IF x.m = <<>> THEN x
    ELSE Bracket(x.s, BMul(x.m, BMul(x.m, x.m)), 3 * x.e, away)

\* the integer part of the square root of n, by Newton's iteration downward
\* from x >= sqrt(n)
RECURSIVE SqrtFrom(_, _)
SqrtFrom(n, x) ==
    With(BShr(BAdd(x, BDivMod(n, x)[1]), 1),
         LAMBDA y : IF BCmp(y, x) >= 0 THEN x ELSE SqrtFrom(n, y))
ISqrt(n) == IF n = <<>> THEN <<>> ELSE SqrtFrom(n, BShl(<<1>>, (BBitLen(n) + 1) \div 2))

\* bits to add to m to have 112 bits or more and an even exponent
SqrtShift(m, e) ==
    With(IF BBitLen(m) >= 112 THEN 0 ELSE 112 - BBitLen(m),
         LAMBDA t : IF (e - t) % 2 = 0 THEN t ELSE t + 1)
\* the square root of a value n * 4^h, or a little above it when sticky,
\* from the integer part r of the square root of n: the nearest double, or
\* one of the two doubles around it
SqrtPut(n, h, r, sticky, mode) ==
    IF mode = "nearest" THEN Round64(1, r, h, sticky \/ BCmp(BMul(r, r), n) # 0)
    ELSE BracketSticky(1, r, h, sticky \/ BCmp(BMul(r, r), n) # 0, mode = "up")
SqrtEven(m, e, sticky, mode) == SqrtPut(m, e \div 2, ISqrt(m), sticky, mode)
SqrtOf(m, e, sticky, mode) ==
    With(SqrtShift(m, e), LAMBDA t : SqrtEven(BShl(m, t), e - t, sticky, mode))

\* Math.sqrt(a): the double nearest to the square root
FSqrt(a) ==
    IF IsNaN64(a) \/ (a.s = 0 /\ a.e = -1) \/ (a.s = -1 /\ a.m # <<>>) THEN NaN64
    ELSE IF a.m = <<>> THEN a
    ELSE SqrtOf(a.m, a.e, FALSE, "nearest")

\* a^2 + b^2 for finite a and b not both 0, as <<m, e, sticky>>: an operand
\* below 2^-64 of the other only makes the sum a little larger
SquareOf(a) == [m |-> BMul(a.m, a.m), e |-> 2 * a.e]
SumAt(p, q, e) == <<BAdd(BShl(p.m, p.e - e), BShl(q.m, q.e - e)), e, FALSE>>
SumOfSquares64(a, b) ==
    IF b.m = <<>> \/ (a.m # <<>> /\ TopBit(a) > TopBit(b) + 64)
    THEN <<BMul(a.m, a.m), 2 * a.e, b.m # <<>>>>
    ELSE IF a.m = <<>> \/ TopBit(b) > TopBit(a) + 64
    THEN <<BMul(b.m, b.m), 2 * b.e, a.m # <<>>>>
    ELSE SumAt(SquareOf(a), SquareOf(b), IF a.e < b.e THEN 2 * a.e ELSE 2 * b.e)

\* the sum of the squares of the values divided by the largest, with the
\* compensation of Kahan, after the term n: <<sum, compensation>>
KahanPut(sum, summand, preliminary) ==
    <<preliminary, FSub(FSub(preliminary, sum), summand)>>
KahanAdd(acc, summand) == KahanPut(acc[1], summand, FAdd(acc[1], summand))
KahanTerm(acc, n) == KahanAdd(acc, FSub(FMul(n, n), acc[2]))
\* the hypotenuse as the engine V8 computes it: sqrt(sum) * max
HypotScaledBy(a, b, max) ==
    FMul(FSqrt(KahanTerm(KahanTerm(<<Zero64, Zero64>>, FDiv(a, max)),
                         FDiv(b, max))[1]),
         max)
HypotScaled(a, b) == HypotScaledBy(FAbs(a), FAbs(b), FMax(FAbs(a), FAbs(b)))

\* what an engine may return for Math.hypot: the double below the exact
\* hypotenuse, the one above it, or the result of the scaled sum
HypotModes == {"down", "up", "scaled"}

\* Math.hypot(a, b)
Hypot64(a, b, mode) ==
    IF IsInf64(a) \/ IsInf64(b) THEN Inf64(1)
    ELSE IF IsNaN64(a) \/ IsNaN64(b) THEN NaN64
    ELSE IF a.m = <<>> /\ b.m = <<>> THEN Zero64
    ELSE IF mode = "scaled" THEN HypotScaled(a, b)
    ELSE With(SumOfSquares64(a, b), LAMBDA t : SqrtOf(t[1], t[2], t[3], mode))

\* fraction bits of the fixed-point numbers of the series of cos and sin
TrigBits == 180

\* n * 2^k, for k of either sign, without the bits below 1
BScale(n, k) ==
    IF k >= 0 THEN BShl(n, k) ELSE IF -k >= BBitLen(n) THEN <<>> ELSE BShr(n, -k)

\* the sums of the terms |x|^n / n! in units of 2^-TrigBits, by n mod 4:
\* <<1 + x^4/4! + .., |x| + |x|^5/5! + .., x^2/2! + .., |x|^3/3! + ..>>
RECURSIVE TrigFrom(_, _, _, _)
TrigFrom(x, n, term, sums) ==
    IF term = <<>> THEN sums
    ELSE TrigFrom(x, n + 1, BDivSmall(BScale(BMul(term, x.m), x.e), n + 1),
                  [sums EXCEPT ![(n % 4) + 1] = BAdd(@, term)])
TrigSums(x) == TrigFrom(x, 0, BShl(<<1>>, TrigBits), <<<<>>, <<>>, <<>>, <<>>>>)

\* s * (p - q) * 2^-TrigBits is next to the exact value, which is no double
TrigPut(s, p, q, away) ==
    IF BCmp(p, q) >= 0 THEN BracketSticky(s, BSub(p, q), -TrigBits, TRUE, away)
    ELSE BracketSticky(-s, BSub(q, p), -TrigBits, TRUE, away)

\* Math.cos(x) from the sums t of the series: 1 for x = 0, NaN for x not
\* finite, and one of the two doubles around the cosine otherwise
CosFrom(x, t, away) ==
    IF ~IsFinite64(x) THEN NaN64
    ELSE IF x.m = <<>> THEN FInt(1)
    ELSE IF TopBit(x) <= -27 THEN JustBelow(1, <<1>>, 0, away)
    ELSE TrigPut(1, t[1], t[3], away)
\* Math.sin(x) from the sums t of the series: x for x = 0 and x = -0
SinFrom(x, t, away) ==
    IF ~IsFinite64(x) THEN NaN64
    ELSE IF x.m = <<>> THEN x
    ELSE IF TopBit(x) <= -27 THEN JustBelow(x.s, x.m, x.e, away)
    ELSE TrigPut(x.s, t[2], t[4], away)

Cos64(x, away) == With(TrigSums(x), LAMBDA t : CosFrom(x, t, away))
Sin64(x, away) == With(TrigSums(x), LAMBDA t : SinFrom(x, t, away))

\* JavaScript truthiness of a value of type number | null: !v is true for
\* null, 0, -0 and NaN
Falsy(v) == v = Null \/ IsZero64(v) \/ IsNaN64(v)

\* Number.isFinite
NumberIsFinite(v) == IsFinite64(v)

(* parseFloat.  A text is the sequence of the UTF-16 code units of a
   JavaScript string: "-1.5" is <<45, 49, 46, 53>>.  parseFloat skips the
   leading white space and line terminators (StrWhiteSpaceChar of ECMA-262),
   reads an optional sign and then the longest prefix that is "Infinity" or
   a decimal literal (digits, an optional "." with digits, an optional
   exponent); what follows the prefix is ignored, and a text without such a
   prefix gives NaN.  The result is the double nearest to the decimal the
   prefix writes. *)
\* the digits "0" to "9" (U+0030 to U+0039) and their values
DigitOf == [c \in 48..57 |-> c - 48]

\* "Infinity"
InfinityText == <<73, 110, 102, 105, 110, 105, 116, 121>>

\* the other characters of a literal: "+" is 43, "-" 45, "." 46, "E" 69 and
\* "e" 101

Drop(t, k) == SubSeq(t, k + 1, Len(t))

StartsWith(t, c) == t # <<>> /\ Head(t) \in c

\* StrWhiteSpaceChar, 25 characters.  WhiteSpace: TAB (9), VT (11), FF (12),
\* ZWNBSP (U+FEFF = 65279) and the space separators SP (32), NBSP (U+00A0 =
\* 160), U+1680 (5760), U+2000 to U+200A (8192 to 8202), U+202F (8239),
\* U+205F (8287), U+3000 (12288).  LineTerminator: LF (10), CR (13), U+2028
\* (8232), U+2029 (8233).
StrWhiteSpaceChar ==
    {9, 10, 11, 12, 13, 32, 160, 5760, 8232, 8233, 8239, 8287, 12288, 65279}
        \cup (8192..8202)

RECURSIVE SkipBlanks(_)
SkipBlanks(t) == IF StartsWith(t, StrWhiteSpaceChar) THEN SkipBlanks(Tail(t)) ELSE t

\* length of the longest prefix of t made of digits
RECURSIVE DigitRun(_)
DigitRun(t) == IF StartsWith(t, DOMAIN DigitOf) THEN 1 + DigitRun(Tail(t)) ELSE 0

\* the natural number written by the first k characters of t, all digits
RECURSIVE BDigits(_, _)
BDigits(t, k) ==
    IF k = 0 THEN <<>>
    ELSE BAdd(BMulSmall(BDigits(t, k - 1), 10), BNat(DigitOf[t[k]]))

\* the number written by the first k characters of t, all digits; an
\* exponent of more than 6 digits is beyond every double
RECURSIVE DigitsValue(_, _)
DigitsValue(t, k) ==
    IF k = 0 THEN 0
    ELSE IF DigitsValue(t, k - 1) >= 100000 THEN 999999
    ELSE 10 * DigitsValue(t, k - 1) + DigitOf[t[k]]

\* the exponent part at the head of t: e or E, an optional sign, digits;
\* 0 when t does not start with one
ExponentOf(t) ==
    IF ~StartsWith(t, {69, 101}) THEN 0
    ELSE LET u == Tail(t)
             d == IF StartsWith(u, {43, 45}) THEN Tail(u) ELSE u
             v == DigitsValue(d, DigitRun(d))
         IN  IF StartsWith(u, {45}) THEN -v ELSE v

\* the double nearest to n * 10^k for a natural n: an infinity from 2^1024
\* on, 0 below half of 2^-1074
Scale10(n, k) ==
    IF n = <<>> THEN Zero64
    ELSE IF k >= 0
    THEN (IF k > 310 THEN Inf64(1) ELSE Round64(1, BMul(n, BPow10(k)), 0, FALSE))
    ELSE IF -k > 330 + BBitLen(n) THEN Zero64
    ELSE FDivNat(1, n, BPow10(-k))

\* i digits before the point, f digits after it (frac is the text after the point)
DecimalOf(t, i, frac, f, rest) ==
    IF i = 0 /\ f = 0 THEN NaN64
    ELSE Scale10(BAdd(BMul(BDigits(t, i), BPow10(f)), BDigits(frac, f)),
                 ExponentOf(rest) - f)

\* the text after the integer digits is after
MantissaOf(t, i, after) ==
    IF StartsWith(after, {46})
    THEN DecimalOf(t, i, Tail(after), DigitRun(Tail(after)),
                   Drop(Tail(after), DigitRun(Tail(after))))
    ELSE DecimalOf(t, i, <<>>, 0, after)

StrUnsigned(t) ==
    IF Len(t) >= Len(InfinityText) /\ SubSeq(t, 1, Len(InfinityText)) = InfinityText
    THEN Inf64(1)
    ELSE MantissaOf(t, DigitRun(t), Drop(t, DigitRun(t)))

SignedOf(s) ==
    IF StartsWith(s, {45}) THEN FNeg(StrUnsigned(Tail(s)))
    ELSE IF StartsWith(s, {43}) THEN StrUnsigned(Tail(s))
    ELSE StrUnsigned(s)

parseFloat(t) == SignedOf(SkipBlanks(t))

----------------------------------------------------------------------------
(* calcRegression and calculateRegression on doubles *)

\* points.reduce((s, t) => s + t, 0) over the terms ts from the i-th on
RECURSIVE FSumFrom(_, _, _)
FSumFrom(ts, i, acc) ==
    IF i > Len(ts) THEN acc ELSE FSumFrom(ts, i + 1, FAdd(acc, ts[i]))
FSum(ts) == FSumFrom(ts, 1, Zero64)

\* the points as doubles
Points64(ps) == [i \in 1..Len(ps) |-> [x |-> Double(ps[i].x), y |-> Double(ps[i].y)]]

Xs64(qs) == [i \in 1..Len(qs) |-> qs[i].x]
Ys64(qs) == [i \in 1..Len(qs) |-> qs[i].y]
XYs64(qs) == [i \in 1..Len(qs) |-> FMul(qs[i].x, qs[i].y)]
X2s64(qs) == [i \in 1..Len(qs) |-> FMul(qs[i].x, qs[i].x)]

\* (p.y - pred) ** 2 for pred = m * p.x + b: the engines compute the power
\* with exponent 2 as the product of the base with itself
SqErrs64(qs, m, b) ==
    [i \in 1..Len(qs) |->
        FMul(FSub(qs[i].y, FAdd(FMul(m, qs[i].x), b)),
             FSub(qs[i].y, FAdd(FMul(m, qs[i].x), b)))]

Slope64(n, sumX, sumY, sumXY, denom) ==
    IF IsZero64(denom) THEN Zero64
    ELSE FDiv(FSub(FMul(n, sumXY), FMul(sumX, sumY)), denom)

Fit64(qs, m, b) == [m |-> m, b |-> b, error |-> FSum(SqErrs64(qs, m, b))]

\* mutant: the intercept adds m * sumX
FitWithSlopeAdded64(qs, n, sumX, sumY, m) ==
    With(FDiv(FAdd(sumY, FMul(m, sumX)), n), LAMBDA b : Fit64(qs, m, b))

\* mutant: the intercept is not divided by n
FitWithSlopeUndivided64(qs, n, sumX, sumY, m) ==
    With(FSub(sumY, FMul(m, sumX)), LAMBDA b : Fit64(qs, m, b))

FitWithSlope64(qs, n, sumX, sumY, m) ==
    With(FDiv(FSub(sumY, FMul(m, sumX)), n), LAMBDA b : Fit64(qs, m, b))

FitFromSums64(qs, n, sumX, sumY, sumXY, sumX2) ==
    With(Slope64(n, sumX, sumY, sumXY, FSub(FMul(n, sumX2), FMul(sumX, sumX))),
         LAMBDA m : FitWithSlope64(qs, n, sumX, sumY, m))

\* calcRegression, on the doubles it is given
calcRegression(qs) ==
    IF Len(qs) = 0 THEN [m |-> Zero64, b |-> Zero64, error |-> Zero64]
    ELSE With(<<FSum(Xs64(qs)), FSum(Ys64(qs)), FSum(XYs64(qs)), FSum(X2s64(qs))>>,
              LAMBDA t : FitFromSums64(qs, FInt(Len(qs)), t[1], t[2], t[3], t[4]))

\* xs.reduce((a, b) => a + b): the fold starts from the first element
FSumOf(ts) == FSumFrom(ts, 2, ts[1])

Centred64(ts, mean) == [i \in 1..Len(ts) |-> FSub(ts[i], mean)]
\* (x - meanX) * (ys[i] - meanY)
Products64(dx, dy) == [i \in 1..Len(dx) |-> FMul(dx[i], dy[i])]

SlopeThroughMeans64(meanX, meanY, slope) ==
    [slope |-> slope, intercept |-> FSub(meanY, FMul(slope, meanX))]

\* slope = num / den
LineThroughMeans64(meanX, meanY, num, den) ==
    With(FDiv(num, den), LAMBDA slope : SlopeThroughMeans64(meanX, meanY, slope))

CentredLine64(meanX, meanY, dx, dy) ==
    With(<<FSum(Products64(dx, dy)), FSum(Products64(dx, dx))>>,
         LAMBDA t : LineThroughMeans64(meanX, meanY, t[1], t[2]))

CentredAt64(qs, meanX, meanY) ==
    With(<<Centred64(Xs64(qs), meanX), Centred64(Ys64(qs), meanY)>>,
         LAMBDA c : CentredLine64(meanX, meanY, c[1], c[2]))

\* slope and intercept of calculateRegression of Compare.tsx, for a
\* non-empty sequence
calculateRegression(qs) ==
    With(<<FDiv(FSumOf(Xs64(qs)), FInt(Len(qs))), FDiv(FSumOf(Ys64(qs)), FInt(Len(qs)))>>,
         LAMBDA means : CentredAt64(qs, means[1], means[2]))

----------------------------------------------------------------------------
(* The domain and the coordinate mapping *)

\* Math.min(...ts), Math.max(...ts) of a non-empty sequence
RECURSIVE MinOf(_)
MinOf(ts) == IF Len(ts) = 1 THEN ts[1] ELSE FMin(ts[1], MinOf(Tail(ts)))
RECURSIVE MaxOf(_)
MaxOf(ts) == IF Len(ts) = 1 THEN ts[1] ELSE FMax(ts[1], MaxOf(Tail(ts)))

\* one axis of getDomain, as <<min, max>>
\* if (Math.abs(max - min) < 1e-6) max = min + 5
WidenAxis(min, max) ==
    IF FLt(FAbs(FSub(max, min)), Double(Rat(1, 1000000)))
    THEN <<min, FAdd(min, FInt(5))>> ELSE <<min, max>>
\* min -= pad; max += pad (under Math.floor / Math.ceil when floorCeil)
PadAxis(min, max, pad, floorCeil) ==
    WidenAxis(IF floorCeil THEN FFloor(FSub(min, pad)) ELSE FSub(min, pad),
              IF floorCeil THEN FCeil(FAdd(max, pad)) ELSE FAdd(max, pad))
\* pad = Math.max(1, (max - min) * 0.15)
AxisOf(min, max, floorCeil) ==
    PadAxis(min, max, FMax(FInt(1), FMul(FSub(max, min), Double(Rat(15, 100)))),
            floorCeil)
\* the axis of the coordinates ts
AxisOver(ts, floorCeil) ==
    With(<<MinOf(ts), MaxOf(ts)>>, LAMBDA r : AxisOf(r[1], r[2], floorCeil))

DomainOf(xAxis, yAxis) ==
    [xmin |-> xAxis[1], xmax |-> xAxis[2], ymin |-> yAxis[1], ymax |-> yAxis[2]]

\* getDomain; floorCeil is FALSE for LinearRegression.tsx (no Math.floor/ceil)
\* and TRUE for part_000 / part_001
\* mutant: the default domain is the unit square
getDomainUnitDefault(qs, floorCeil) ==
    IF Len(qs) = 0
    THEN [xmin |-> Zero64, xmax |-> FInt(1), ymin |-> Zero64, ymax |-> FInt(1)]
    ELSE DomainOf(AxisOver(Xs64(qs), floorCeil), AxisOver(Ys64(qs), floorCeil))

getDomain(qs, floorCeil) ==
    IF Len(qs) = 0
    THEN [xmin |-> Zero64, xmax |-> FInt(10), ymin |-> Zero64, ymax |-> FInt(10)]
    ELSE DomainOf(AxisOver(Xs64(qs), floorCeil), AxisOver(Ys64(qs), floorCeil))

\* dataToPixel for the domain d, as <<px, py>>
DataInDomain(x, y, width, height, d) ==
    <<FAdd(FInt(PADDING),
           FMul(FDiv(FSub(x, d.xmin), FSub(d.xmax, d.xmin)),
                FInt(width - 2 * PADDING))),
      FSub(FInt(height - PADDING),
           FMul(FDiv(FSub(y, d.ymin), FSub(d.ymax, d.ymin)),
                FInt(height - 2 * PADDING)))>>

dataToPixel(x, y, width, height, qs, floorCeil) ==
    With(getDomain(qs, floorCeil), LAMBDA d : DataInDomain(x, y, width, height, d))

\* pixelToData for the domain d
PixelInDomain(px, py, width, height, d) ==
    [x |-> FAdd(d.xmin, FMul(FDiv(FSub(px, FInt(PADDING)), FInt(width - 2 * PADDING)),
                             FSub(d.xmax, d.xmin))),
     y |-> FAdd(d.ymin, FMul(FDiv(FSub(FInt(height - PADDING), py),
                                  FInt(height - 2 * PADDING)),
                             FSub(d.ymax, d.ymin)))]

pixelToData(px, py, width, height, qs, floorCeil) ==
    With(getDomain(qs, floorCeil), LAMBDA d : PixelInDomain(px, py, width, height, d))

\* the start value of minD and the radius within which a point is hovered, in px
FarAway == 9999
HoverRadius == 12

\* cx - px and cy - py of the forEach of onMove for the point drawn at c
HoverLegs(c, px, py) == <<FSub(c[1], FInt(px)), FSub(c[2], FInt(py))>>
\* the values Math.hypot may return for the legs l
HypotValues(l) == {Hypot64(l[1], l[2], mode) : mode \in HypotModes}

\* for every point, in the order of the points, the legs of its distance from
\* the pointer at (px, py) and what Math.hypot may return for them
HoverDistances(qs, d, px, py) ==
    [i \in 1..Len(qs) |->
        With(HoverLegs(DataInDomain(qs[i].x, qs[i].y, CanvasW, CanvasH, d), px, py),
             LAMBDA l : [legs |-> <<FAbs(l[1]), FAbs(l[2])>>, d |-> HypotValues(l)])]

\* a distance that has failed the test of the forEach: minD only decreases,
\* so that the same distance fails it again
Missed == Inf64(1)

\* Math.hypot returns one value for the same legs: the distances the point
\* of index i (0-based) may have when vs are those of the points before it
Candidates(ds, i, vs) ==
    IF \E j \in 1..i : ds[j].legs = ds[i + 1].legs
    THEN {vs[CHOOSE j \in 1..i : ds[j].legs = ds[i + 1].legs]}
    ELSE ds[i + 1].d

\* a forEach that keeps the last of the points at the smallest distance
RECURSIVE NearestFromLast(_, _, _, _)
NearestFromLast(ds, vs, nearest, minD) ==
    IF Len(vs) >= Len(ds) THEN {nearest}
    ELSE With(Candidates(ds, Len(vs), vs), LAMBDA cand :
         With({h \in cand : FLe(h, minD) /\ FLt(h, FInt(HoverRadius))}, LAMBDA hits :
            (IF hits # cand THEN NearestFromLast(ds, Append(vs, Missed), nearest, minD)
             ELSE {})
            \cup UNION {NearestFromLast(ds, Append(vs, h), FInt(Len(vs)), h) : h \in hits}))

\* the forEach of onMove from the point of index Len(vs) (0-based) on: the
\* values nearest may have at its end.  ds holds the distances, vs those
\* taken for the points before, minD and nearest are the variables of onMove:
\* if (d < minD && d < 12) { minD = d; nearest = i; }
RECURSIVE NearestFrom(_, _, _, _)
NearestFrom(ds, vs, nearest, minD) ==
    IF Len(vs) >= Len(ds) THEN {nearest}
    ELSE With(Candidates(ds, Len(vs), vs), LAMBDA cand :
         With({h \in cand : FLt(h, minD) /\ FLt(h, FInt(HoverRadius))}, LAMBDA hits :
            (IF hits # cand THEN NearestFrom(ds, Append(vs, Missed), nearest, minD)
             ELSE {})
            \cup UNION {NearestFrom(ds, Append(vs, h), FInt(Len(vs)), h) : h \in hits}))

\* nearest of onMove: the indexes of the point to hover it may end with, Null
\* for none
Nearest(qs, px, py) ==
    With(getDomain(qs, FALSE),
         LAMBDA d : With(HoverDistances(qs, d, px, py),
                         LAMBDA ds : NearestFrom(ds, <<>>, Null, FInt(FarAway))))

\* the test of onMove and onClick for a position outside the plotting area
OutsidePlot(px, py) ==
    px < PADDING \/ px > CanvasW - PADDING \/ py < PADDING \/ py > CanvasH - PADDING

\* the doubles the literals of the points ps denote
Numbers64(ps) == [i \in 1..Len(ps) |-> [x |-> Number64(ps[i].x), y |-> Number64(ps[i].y)]]

----------------------------------------------------------------------------
(* State *)

VARIABLES
    variant,              \* "spiral" or "trace": which file is mounted
    mounted,              \* FALSE once React has unmounted the component
    theme,                \* useTheme(): "light" or "dark"
    points,               \* useState<Point[]>
    target,               \* targetM, targetB, totalError: calcRegression(points) of the render
    currentM, currentB,   \* displayed line
    manualM, manualB,     \* manual override, Null when absent
    isAnimating,
    animSpeed,
    showResiduals,
    rafRef,               \* rafRef.current: {} for null, else {the pending session callback}
    frames,               \* animation callbacks the browser holds for the next frame
    timers,               \* pending 50 ms timers of onClick, oldest first
    isAnimatingLine,      \* trace variant only
    isAddingPoint,        \* trace variant only
    animationPoints,      \* trace variant only: the synthetic sequence
    currentAnimationStep, \* trace variant only: the cursor
    chains,               \* trace variant only: pending animateStep timer chains
    hlFrames,             \* trace variant only: pending highlight frame loops (elapsed ms)
    hoverIdx,             \* useState<number | null>: the 0-based index of a point
    inpX, inpY,           \* contents of the text fields inpX and inpY
    cnn,                  \* the component CNNVisualizer: its state and pending timers
    input,                \* the point sequence a pure function is called with
    result,               \* the last call of a pure function and what it returned
    budget,               \* user actions left (bounds the exploration)
    hist                  \* last user action and last callback run since

vars == <<variant, mounted, theme, points, target, currentM, currentB, manualM, manualB,
          isAnimating, animSpeed, showResiduals, rafRef, frames, timers,
          isAnimatingLine, isAddingPoint, animationPoints, currentAnimationStep,
          chains, hlFrames, hoverIdx, inpX, inpY, cnn, input, result, budget,
          hist>>

\* no pure function has been called
NoCall == [fn |-> "none"]

\* everything but the argument and the result of the pure functions
component == <<variant, mounted, theme, points, target, currentM, currentB, manualM,
               manualB, isAnimating, animSpeed, showResiduals, rafRef, frames,
               timers, isAnimatingLine, isAddingPoint, animationPoints,
               currentAnimationStep, chains, hlFrames, hoverIdx, inpX, inpY,
               cnn, budget, hist>>

\* the variables of the regression page
regression == <<variant, mounted, theme, points, target, currentM, currentB, manualM,
                manualB, isAnimating, animSpeed, showResiduals, rafRef, frames,
                timers, isAnimatingLine, isAddingPoint, animationPoints,
                currentAnimationStep, chains, hlFrames, hoverIdx, inpX, inpY>>

(* Bounds of the exploration *)
MaxUserActions == 3
MaxTraceActions == 2
MaxFrameUnits == 2
\* user actions in the behaviours checked for termination
MaxLiveActions == 2
MaxLiveTraceActions == 1

\* the component state as one record: what a render sees.  fresh names the
\* arrays (points, animationPoints) a setter was given since the previous
\* committed render: every call of setPoints and setAnimationPoints in the
\* source passes a new array, which Object.is tells from the one before
\* whatever it holds
St ==
    [mounted |-> mounted, theme |-> theme, points |-> points, target |-> target,
     currentM |-> currentM,
     currentB |-> currentB, manualM |-> manualM, manualB |-> manualB,
     isAnimating |-> isAnimating, animSpeed |-> animSpeed,
     showResiduals |-> showResiduals, rafRef |-> rafRef, frames |-> frames,
     timers |-> timers, isAnimatingLine |-> isAnimatingLine,
     isAddingPoint |-> isAddingPoint, animationPoints |-> animationPoints,
     currentAnimationStep |-> currentAnimationStep, chains |-> chains,
     hlFrames |-> hlFrames, hoverIdx |-> hoverIdx, inpX |-> inpX, inpY |-> inpY,
     fresh |-> {}]

Apply(r) ==
    /\ mounted' = r.mounted
    /\ theme' = r.theme
    /\ points' = r.points
    /\ target' = r.target
    /\ currentM' = r.currentM
    /\ currentB' = r.currentB
    /\ manualM' = r.manualM
    /\ manualB' = r.manualB
    /\ isAnimating' = r.isAnimating
    /\ animSpeed' = r.animSpeed
    /\ showResiduals' = r.showResiduals
    /\ rafRef' = r.rafRef
    /\ frames' = r.frames
    /\ timers' = r.timers
    /\ isAnimatingLine' = r.isAnimatingLine
    /\ isAddingPoint' = r.isAddingPoint
    /\ animationPoints' = r.animationPoints
    /\ currentAnimationStep' = r.currentAnimationStep
    /\ chains' = r.chains
    /\ hlFrames' = r.hlFrames
    /\ hoverIdx' = r.hoverIdx
    /\ inpX' = r.inpX
    /\ inpY' = r.inpY
    /\ variant' = variant
    /\ UNCHANGED <<input, result, cnn>>

\* the literals of the initial state of points
DefaultLiterals ==
    <<Pt(Num(1), Num(3)), Pt(Num(2), Num(5)), Pt(Num(3), Num(4)),
      Pt(Num(4), Num(7)), Pt(Num(5), Num(8))>>

\* the default set without its last point
DefaultPointsButLast == Points64(SubSeq(DefaultLiterals, 1, 4))

DefaultPoints == Points64(DefaultLiterals)

DefaultSpeed == 40

----------------------------------------------------------------------------
(* Spiral animation: the step callback of LinearRegression.tsx *)

AngleMs == 80
MinDurationMs == 80
\* time between two frames the browser delivers, in ms: 1..MaxFrameUnits units
\* of 160 ms (a throttled tab)
FrameMs == 160
FrameDeltas == {k * FrameMs : k \in 1..MaxFrameUnits}

\* duration = Math.max(80, animSpeed * 8)
Duration(speed) == IF speed * 8 > MinDurationMs THEN speed * 8 ELSE MinDurationMs

\* the closure of one run of the animation effect
Session(r, tn) ==
    [startM |-> r.currentM, startB |-> r.currentB,
     targetM |-> tn.m, targetB |-> tn.b,
     duration |-> Duration(r.animSpeed), elapsed |-> 0]

\* Math.min(1, elapsed / duration)
Norm64(elapsed, duration) == FMin(FInt(1), FDiv(FInt(elapsed), FInt(duration)))

\* the second branch of the ease without its division by 2
EaseUnhalved64(norm, away) ==
    IF FLt(norm, Double(Rat(1, 2)))
    THEN FMul(FMul(FMul(FInt(4), norm), norm), norm)
    ELSE FSub(FInt(1), PowCube64(FAdd(FMul(FInt(-2), norm), FInt(2)), away))

\* norm < 0.5 ? 4 * norm * norm * norm : 1 - Math.pow(-2 * norm + 2, 3) / 2
Ease64(norm, away) ==
    IF FLt(norm, Double(Rat(1, 2)))
    THEN FMul(FMul(FMul(FInt(4), norm), norm), norm)
    ELSE FSub(FInt(1),
              FDiv(PowCube64(FAdd(FMul(FInt(-2), norm), FInt(2)), away), FInt(2)))

\* baseM = startM + deltaM * ease, with deltaM = targetM - startM
Base64(start, end, ease) == FAdd(start, FMul(FSub(end, start), ease))
\* spiralRadius = 1 - ease
SpiralRadius64(ease) == FSub(FInt(1), ease)
\* angle = elapsed / 80
Angle64(elapsed) == FDiv(FInt(elapsed), FInt(AngleMs))

\* newM / newB of step(t) for the session s: baseM + spiralM and
\* baseB + spiralB for the eased progress ease, the radius
\* spiralRadius = 1 - ease and the values cos and sin of Math.cos(angle) and
\* Math.sin(angle)
SpiralLine(s, ease, spiralRadius, cos, sin) ==
    [m |-> FAdd(Base64(s.startM, s.targetM, ease),
                FMul(FMul(cos, FInt(2)), spiralRadius)),
     b |-> FAdd(Base64(s.startB, s.targetB, ease),
                FMul(FMul(sin, FInt(4)), spiralRadius))]

EasedLine(s, ease, cos, sin) == SpiralLine(s, ease, SpiralRadius64(ease), cos, sin)

\* newM / newB at t - startTime = elapsed when Math.pow, Math.cos and
\* Math.sin return the values away.pow, away.cos and away.sin tell
StepLine(s, elapsed, away) ==
    EasedLine(s, Ease64(Norm64(elapsed, s.duration), away.pow),
              Cos64(Angle64(elapsed), away.cos), Sin64(Angle64(elapsed), away.sin))

\* every line step(t) may compute, from the norm, the angle and the sums t
\* of the series of the angle
StepLinesFrom(s, norm, angle, t) ==
    {EasedLine(s, Ease64(norm, pow), CosFrom(angle, t, cos), SinFrom(angle, t, sin)) :
        pow \in BOOLEAN, cos \in BOOLEAN, sin \in BOOLEAN}
\* the sums of the series at the angles of the first k frame times
RECURSIVE TrigSumsUpTo(_)
TrigSumsUpTo(k) ==
    IF k = 0 THEN <<>>
    ELSE Append(TrigSumsUpTo(k - 1), TrigSums(Angle64(k * FrameMs)))
\* computed once for the frame times of a session at the default speed
FrameTrigSums == TrigSumsUpTo(Duration(DefaultSpeed) \div FrameMs)
\* TrigSums(angle) for angle = elapsed / 80
TrigSumsAt(elapsed, angle) ==
    IF elapsed % FrameMs = 0 /\ elapsed \div FrameMs \in 1..Len(FrameTrigSums)
    THEN FrameTrigSums[elapsed \div FrameMs]
    ELSE TrigSums(angle)
StepLinesAt(s, elapsed, norm, angle) ==
    With(TrigSumsAt(elapsed, angle), LAMBDA t : StepLinesFrom(s, norm, angle, t))
StepLines(s, elapsed) ==
    With(<<Norm64(elapsed, s.duration), Angle64(elapsed)>>,
         LAMBDA a : StepLinesAt(s, elapsed, a[1], a[2]))

\* the lines step(t) may leave in the state: the settle branch overrides
\* newM / newB
SettledLines(s, elapsed) ==
    IF FLt(Norm64(elapsed, s.duration), FInt(1)) THEN StepLines(s, elapsed)
    ELSE {[m |-> s.targetM, b |-> s.targetB]}

\* the line step(t) leaves in the state
SettledLine(s, elapsed, away) ==
    IF FLt(Norm64(elapsed, s.duration), FInt(1)) THEN StepLine(s, elapsed, away)
    ELSE [m |-> s.targetM, b |-> s.targetB]

----------------------------------------------------------------------------
(* Effects of the spiral variant, run after a render.  prev is the state of *)
(* the previous committed render, ev the state the handler's setState calls *)
(* produce.  Effects run in source order; an effect runs when one of its    *)
(* dependencies differs from the previous render (Object.is: two numbers    *)
(* differ when their records differ).                                       *)

\* tp / tn: calcRegression of the points of the previous / of this render
\* (targetM, targetB of line 46)
TargetChanged(tp, tn) == tp.m # tn.m \/ tp.b # tn.b

SyncDepsChanged(prev, ev, tp, tn) ==
    \/ TargetChanged(tp, tn)
    \/ prev.manualM # ev.manualM
    \/ prev.manualB # ev.manualB

\* a dependency list without targetM / targetB: the session keeps a stale target
AnimDepsStale(prev, ev, tp, tn) ==
    \/ prev.isAnimating # ev.isAnimating
    \/ prev.animSpeed # ev.animSpeed

AnimDepsChanged(prev, ev, tp, tn) ==
    \/ prev.isAnimating # ev.isAnimating
    \/ prev.animSpeed # ev.animSpeed
    \/ TargetChanged(tp, tn)

\* useEffect "initial set current line to computed line"
SyncEffect(prev, ev, tp, tn, r) ==
    IF SyncDepsChanged(prev, ev, tp, tn) /\ Falsy(ev.manualM) /\ Falsy(ev.manualB)
    THEN [r EXCEPT !.currentM = tn.m, !.currentB = tn.b]
    ELSE r

\* useEffect of the spiral animation: cleanup of the previous run, then the body,
\* which reads currentM / currentB of the render it belongs to (ev)
\* an effect body that never requests the first frame
AnimEffectNoStart(prev, ev, tp, tn, r) ==
    IF ~AnimDepsChanged(prev, ev, tp, tn) THEN r
    ELSE [r EXCEPT !.frames = r.frames \ r.rafRef, !.rafRef = {}]

AnimEffect(prev, ev, tp, tn, r) ==
    IF ~AnimDepsChanged(prev, ev, tp, tn) THEN r
    ELSE LET kept == r.frames \ r.rafRef
             s == Session(ev, tn)
         IN  IF ev.isAnimating
             THEN [r EXCEPT !.frames = kept \cup {s}, !.rafRef = {s}]
             ELSE [r EXCEPT !.frames = kept, !.rafRef = {}]

\* useEffect [manualM] and useEffect [manualB]
ManualMEffect(prev, ev, r) ==
    IF prev.manualM # ev.manualM /\ ev.manualM # Null
    THEN [r EXCEPT !.currentM = ev.manualM] ELSE r
ManualBEffect(prev, ev, r) ==
    IF prev.manualB # ev.manualB /\ ev.manualB # Null
    THEN [r EXCEPT !.currentB = ev.manualB] ELSE r

\* the four effects in source order
SpiralEffects(prev, ev, tp, tn) ==
    ManualBEffect(prev, ev,
        ManualMEffect(prev, ev,
            AnimEffect(prev, ev, tp, tn,
                SyncEffect(prev, ev, tp, tn, ev))))

\* the tooltip block of draw reads points[hoverIdx].x: a TypeError when the
\* index is beyond the points
DrawThrows(r) == r.hoverIdx # Null /\ ~FLt(r.hoverIdx, FInt(Len(r.points)))

\* React removes the component: the cleanup of every effect runs
TornDown(r) ==
    [r EXCEPT !.mounted = FALSE, !.frames = r.frames \ r.rafRef, !.rafRef = {}]

\* the draw effect after the other effects: an error thrown by an effect
\* makes React unmount the tree (there is no error boundary)
Drawn(r) == IF DrawThrows(r) THEN TornDown(r) ELSE r

\* (p.y - (m * p.x + b)) ** 2 summed over the points, for the line m, b
ErrorOf(qs, m, b) == FSum(SqErrs64(qs, m, b))

\* a legend whose error is that of the displayed line
LegendOfDisplayedLine(r) ==
    [equation |-> <<Fixed4Text(r.currentM), Fixed4Text(r.currentB)>>,
     totalError |-> Fixed4Text(ErrorOf(r.points, r.currentM, r.currentB))]

\* the two labels draw writes top-left in the render of the state r: the
\* equation of currentM / currentB and totalError of calcRegression(points),
\* both with toFixed(4)
Legend(r) ==
    [equation |-> <<Fixed4Text(r.currentM), Fixed4Text(r.currentB)>>,
     totalError |-> Fixed4Text(r.target.error)]

\* calcRegression(points) of the render ev (line 46): what the previous
\* render computed when it held the same points
Retargeted(prev, ev) ==
    IF ev.points = prev.points THEN prev.target ELSE calcRegression(ev.points)

\* the effects of a render whose calcRegression(points) is tn
SpiralCommitTo(prev, ev, tn) ==
    \E r \in {SpiralEffects(prev, ev, prev.target, tn)} :
        Apply(Drawn([r EXCEPT !.target = tn]))
\* the commit of a render: calcRegression of this render, then the effects
SpiralCommit(prev, ev) ==
    \E tn \in {Retargeted(prev, ev)} : SpiralCommitTo(prev, ev, tn)

----------------------------------------------------------------------------
(* Stepwise trace: src/unnamed/part_001 *)

TraceCount == 12
HighlightMs == 400

\* generateRandomPoints(12): x in [0, 6), y in [0, 9); the draws of Math.random
\* are represented by a seed <<a, b>> chosen by the environment
RandomSeeds == {<<1, 2>>, <<5, 4>>}
\* passed where the handler changes neither isAnimatingLine nor animSpeed, so
\* that the trace effect cannot run and nothing is drawn
NoSeed == <<0, 0>>
generateRandomPoints(seed) ==
    [i \in 1..TraceCount |-> Pt(FInt((seed[1] * i) % 6), FInt((seed[2] * i) % 9))]

\* draw (useCallback) has a new identity in the render next: one of its
\* dependencies differs from the render prev.  points and animationPoints
\* differ when a setter was given an array; getDomain changes with points,
\* totalError is a function of what points holds, hoverIdx never changes
DrawChanged(prev, next) ==
    \/ next.fresh # {}
    \/ prev.currentM # next.currentM
    \/ prev.currentB # next.currentB
    \/ prev.hoverIdx # next.hoverIdx
    \/ prev.showResiduals # next.showResiduals
    \/ prev.theme # next.theme
    \/ prev.isAnimating # next.isAnimating
    \/ prev.currentAnimationStep # next.currentAnimationStep

\* useEffect [isAnimatingLine, animSpeed]: starts a timer chain, cancels nothing.
\* animateStep() is called once synchronously, so the chain's own counter is 1.
TraceEffect(prev, ev, seed, r) ==
    IF /\ (prev.isAnimatingLine # ev.isAnimatingLine \/ prev.animSpeed # ev.animSpeed)
       /\ ev.isAnimatingLine
    THEN [r EXCEPT !.animationPoints = generateRandomPoints(seed),
                   !.fresh = r.fresh \cup {"animationPoints"},
                   !.currentAnimationStep = 0,
                   !.showResiduals = FALSE,
                   !.isAnimating = TRUE,
                   !.chains = Append(r.chains,
                                  [seed |-> seed, currentStep |-> 1, phase |-> "step"])]
    ELSE r

\* a highlight frame loop is started
HighlightStarted(r) ==
    [r EXCEPT !.hlFrames = Append(r.hlFrames,
                               [elapsed |-> 0, hasPoints |-> r.points # <<>>])]

\* useEffect [isAddingPoint, points, draw]: starts a frame loop, cancels nothing
HighlightEffect(prev, ev, r) ==
    IF /\ ev.isAddingPoint
       /\ \/ prev.isAddingPoint # ev.isAddingPoint
          \/ "points" \in ev.fresh
          \/ DrawChanged(prev, ev)
    THEN HighlightStarted(r)
    ELSE r

\* effects of the render after the handler, in source order; what they set
\* is for the next render, which starts with no array given
TraceEffects(prev, ev, seed, tp, tn) ==
    HighlightEffect(prev, ev,
        ManualBEffect(prev, ev,
            ManualMEffect(prev, ev,
                TraceEffect(prev, ev, seed,
                    SyncEffect(prev, ev, tp, tn, [ev EXCEPT !.fresh = {}])))))

\* the render caused by the effects' setState calls: draw has a new identity
\* when one of its dependencies changed, and the highlight effect runs again
Rerender(ev, r) ==
    IF DrawChanged(ev, r) /\ r.isAddingPoint THEN HighlightStarted(r) ELSE r

\* the effects of a render whose calculateRegression(points) is tn
TraceCommitTo(prev, ev, seed, tn) ==
    \E r \in {Rerender(ev, TraceEffects(prev, ev, seed, prev.target, tn))} :
        Apply([r EXCEPT !.target = tn])
TraceCommit(prev, ev, seed) ==
    \E tn \in {Retargeted(prev, ev)} : TraceCommitTo(prev, ev, seed, tn)

----------------------------------------------------------------------------
(* Inputs the environment may supply *)

\* texts typed into the fields inpX and inpY that parse to finite numbers:
\* "1" and "3"
InputTexts == {<< <<49>>, <<51>> >>}
\* texts of which one does not parse to a finite number: e-acute (U+00E9)
\* before "7", and "1"
RejectedTexts == {<< <<233, 55>>, <<49>> >>}
\* canvas positions of a click, inside the plot interior
ClickPixels == {<<348, 210>>}
\* range inputs: slope in [-5, 5], intercept in [-10, 10], speed in 1..100
SliderMVals == {Zero64, FInt(2)}
SliderBVals == {Zero64, FInt(3)}
SpeedVals == {1, 20}

----------------------------------------------------------------------------
(* Actions *)

UserDone(label) ==
    /\ budget' = budget - 1
    /\ hist' = [user |-> label, cb |-> "none"]

\* a pointer event at the canvas position (px, py)
UserDoneAt(label, px, py) ==
    /\ budget' = budget - 1
    /\ hist' = [user |-> label, cb |-> "none", at |-> <<px, py>>]

CallbackDone(label) ==
    /\ budget' = budget
    /\ hist' = [hist EXCEPT !.cb = label]

CanAct == mounted /\ budget > 0

(* ---- spiral variant: src/src/pages/LinearRegression.tsx ---- *)

\* an add that drops a point equal to one already present
SpiralAddedOnce(x, y) ==
    [St EXCEPT !.points = IF \E i \in 1..Len(points) : points[i] = Pt(x, y)
                          THEN points ELSE Append(points, Pt(x, y)),
               !.manualM = Null, !.manualB = Null, !.isAnimating = TRUE,
               !.showResiduals = TRUE, !.inpX = <<>>, !.inpY = <<>>]

\* the state addPointFromInputs leaves when both fields hold finite numbers
SpiralAdded(x, y) ==
    [St EXCEPT !.points = Append(points, Pt(x, y)), !.manualM = Null,
               !.manualB = Null, !.isAnimating = TRUE,
               !.showResiduals = TRUE, !.inpX = <<>>, !.inpY = <<>>]

\* an addPointFromInputs that empties the fields whatever they hold
SpiralAddClearing(tx, ty) ==
    \E x \in {parseFloat(tx)}, y \in {parseFloat(ty)} :
        IF NumberIsFinite(x) /\ NumberIsFinite(y)
        THEN SpiralCommit(St, SpiralAdded(x, y)) /\ UserDone("add")
        ELSE Apply([St EXCEPT !.inpX = <<>>, !.inpY = <<>>]) /\ UserDone("reject")

\* addPointFromInputs when the fields hold the texts tx and ty
SpiralAddFromInputs(tx, ty) ==
    \E x \in {parseFloat(tx)}, y \in {parseFloat(ty)} :
        IF NumberIsFinite(x) /\ NumberIsFinite(y)
        THEN SpiralCommit(St, SpiralAdded(x, y)) /\ UserDone("add")
        ELSE Apply([St EXCEPT !.inpX = tx, !.inpY = ty]) /\ UserDone("reject")

\* the "Add Point" button: addPointFromInputs on the contents of the fields
SpiralAddPoint ==
    /\ variant = "spiral" /\ CanAct
    /\ SpiralAddFromInputs(inpX, inpY)

\* the user edits the two text fields (plain DOM inputs: no handler, no
\* render); the texts stay in the fields until "Add Point" accepts them.
\* Typing reaches no state of the component and is not counted as a user
\* action.
TypeFields(tx, ty) ==
    /\ mounted
    /\ <<tx, ty>> # <<inpX, inpY>>
    /\ Apply([St EXCEPT !.inpX = tx, !.inpY = ty])
    /\ UNCHANGED <<budget, hist>>

\* Number(data.x.toFixed(4)), Number(data.y.toFixed(4))
RoundedPoint(data) == Pt(ToFixed4(data.x), ToFixed4(data.y))

\* delay of the setTimeout of onClick, in ms
DeferMs == 50

\* the state onClick leaves: the point appended, the override cleared, the
\* 50 ms timer pending
ClickState(ext) ==
    [St EXCEPT !.points = ext, !.manualM = Null, !.manualB = Null,
               !.timers = Append(timers, DeferMs)]

\* onClick: a click outside the plotting area returns at once
SpiralClick(px, py) ==
    /\ variant = "spiral" /\ CanAct
    /\ IF OutsidePlot(px, py)
       THEN Apply(St) /\ UserDoneAt("miss", px, py)
       ELSE /\ \E data \in {pixelToData(FInt(px), FInt(py), CanvasW, CanvasH,
                                            points, FALSE)} :
                   SpiralCommit(St, ClickState(Append(points, RoundedPoint(data))))
            /\ UserDoneAt("click", px, py)

\* onMove: the hover is cleared in the padding margin, else set to the nearest
\* point within the radius
SpiralMove(px, py) ==
    /\ variant = "spiral" /\ CanAct
    /\ \E nearest \in (IF OutsidePlot(px, py) THEN {Null} ELSE Nearest(points, px, py)) :
           SpiralCommit(St, [St EXCEPT !.hoverIdx = nearest])
    /\ UserDoneAt("move", px, py)

\* the mouseleave listener
SpiralLeave ==
    /\ variant = "spiral" /\ CanAct
    /\ SpiralCommit(St, [St EXCEPT !.hoverIdx = Null])
    /\ UserDone("leave")

\* the setTimeout(..., 50) callback of onClick
SpiralTimer ==
    /\ variant = "spiral"
    /\ timers # <<>>
    /\ IF mounted
       THEN SpiralCommit(St,
                [St EXCEPT !.timers = Tail(timers), !.isAnimating = TRUE,
                           !.showResiduals = TRUE])
       ELSE Apply([St EXCEPT !.timers = Tail(timers)])
    /\ CallbackDone("timer")

SpiralClear ==
    /\ variant = "spiral" /\ CanAct
    /\ SpiralCommit(St,
           [St EXCEPT !.points = <<>>, !.manualM = Null, !.manualB = Null,
                      !.currentM = Zero64, !.currentB = Zero64])
    /\ UserDone("clear")

\* the "Animate BFL" button (disabled while isAnimating)
SpiralAnimate ==
    /\ variant = "spiral" /\ CanAct
    /\ ~isAnimating
    /\ SpiralCommit(St,
           [St EXCEPT !.isAnimating = TRUE, !.showResiduals = TRUE,
                      !.manualM = Null, !.manualB = Null])
    /\ UserDone("animate")

\* norm < 1 at the frame dt ms after the previous one
FrameGoesOn(s, dt) == FLt(Norm64(s.elapsed + dt, s.duration), FInt(1))

\* the callback has run: it rescheduled itself (rafRef.current = the new
\* request) or ended (rafRef.current = null)
FrameRan(s, dt) ==
    IF FrameGoesOn(s, dt)
    THEN [St EXCEPT !.frames = (frames \ {s}) \cup {[s EXCEPT !.elapsed = s.elapsed + dt]},
                    !.rafRef = {[s EXCEPT !.elapsed = s.elapsed + dt]}]
    ELSE [St EXCEPT !.frames = frames \ {s}, !.rafRef = {}]

\* ... and its setCurrentM / setCurrentB / setIsAnimating(false)
FrameState(s, dt, line) ==
    [FrameRan(s, dt) EXCEPT !.currentM = line.m, !.currentB = line.b,
                            !.isAnimating = IF FrameGoesOn(s, dt) THEN isAnimating
                                            ELSE FALSE]

\* one run of step(t), dt ms after the previous frame
SpiralFrame(s, dt) ==
    /\ variant = "spiral"
    /\ s \in frames
    /\ IF mounted
       THEN \E line \in SettledLines(s, s.elapsed + dt) :
                SpiralCommit(St, FrameState(s, dt, line))
       ELSE Apply(FrameRan(s, dt))
    /\ CallbackDone(IF FrameGoesOn(s, dt) THEN "frame" ELSE "frameDone")

(* ---- trace variant: src/unnamed/part_001 ---- *)

\* the state addPointFromInputs leaves when both fields hold finite numbers
TraceAdded(x, y) ==
    [St EXCEPT !.points = Append(points, Pt(x, y)), !.fresh = {"points"},
               !.manualM = Null,
               !.manualB = Null, !.showResiduals = TRUE,
               !.isAddingPoint = TRUE, !.inpX = <<>>, !.inpY = <<>>]

\* addPointFromInputs when the fields hold the texts tx and ty
TraceAddFromInputs(tx, ty) ==
    \E x \in {parseFloat(tx)}, y \in {parseFloat(ty)} :
        IF NumberIsFinite(x) /\ NumberIsFinite(y)
        THEN TraceCommit(St, TraceAdded(x, y), NoSeed) /\ UserDone("add")
        ELSE Apply([St EXCEPT !.inpX = tx, !.inpY = ty]) /\ UserDone("reject")

\* the "Add Point" button: addPointFromInputs on the contents of the fields
TraceAddPoint ==
    /\ variant = "trace" /\ CanAct
    /\ TraceAddFromInputs(inpX, inpY)

TraceClear ==
    /\ variant = "trace" /\ CanAct
    /\ TraceCommit(St,
           [St EXCEPT !.points = <<>>, !.manualM = Null, !.manualB = Null,
                      !.currentM = Zero64, !.currentB = Zero64,
                      !.animationPoints = <<>>, !.isAnimating = FALSE,
                      !.fresh = {"points", "animationPoints"}], NoSeed)
    /\ UserDone("clear")

\* the "Animate BFL" button (disabled while isAnimatingLine)
TraceAnimate(seed) ==
    /\ variant = "trace" /\ CanAct
    /\ ~isAnimatingLine
    /\ TraceCommit(St,
           [St EXCEPT !.isAnimatingLine = TRUE, !.manualM = Null,
                      !.manualB = Null], seed)
    /\ UserDone("animate")

\* the closing callback without its setIsAnimatingLine(false)
SessionLeftAnimating(s) ==
    [s EXCEPT !.isAnimating = FALSE,
              !.showResiduals = TRUE,
              !.animationPoints = <<>>,
              !.fresh = {"animationPoints"}]

\* the state updates of the 500 ms closing callback of a session
SessionClosed(s) ==
    [s EXCEPT !.isAnimating = FALSE,
              !.isAnimatingLine = FALSE,
              !.showResiduals = TRUE,
              !.animationPoints = <<>>,
              !.fresh = {"animationPoints"}]

\* one timer of the chain chains[i]: animateStep, or the 500 ms closing callback
TraceTimer(i) ==
    /\ variant = "trace"
    /\ i \in 1..Len(chains)
    /\ LET c == chains[i]
           totalSteps == TraceCount - 1
           fit == calcRegression(generateRandomPoints(c.seed))
           without == [j \in 1..(Len(chains) - 1) |->
                          IF j < i THEN chains[j] ELSE chains[j + 1]]
       IN  IF c.phase = "step" /\ c.currentStep <= totalSteps
           THEN /\ LET ran == [St EXCEPT !.chains[i].currentStep = c.currentStep + 1]
                   IN  IF mounted
                       THEN TraceCommit(St,
                                [ran EXCEPT !.currentAnimationStep = c.currentStep], NoSeed)
                       ELSE Apply(ran)
                /\ CallbackDone("step")
           ELSE IF c.phase = "step"
           THEN /\ LET ran == [St EXCEPT !.chains[i].phase = "final"]
                   IN  IF mounted
                       THEN TraceCommit(St,
                                [ran EXCEPT !.currentM = fit.m, !.currentB = fit.b], NoSeed)
                       ELSE Apply(ran)
                /\ CallbackDone("fit")
           ELSE /\ LET ran == [St EXCEPT !.chains = without]
                   IN  IF mounted
                       THEN TraceCommit(St, SessionClosed(ran), NoSeed)
                       ELSE Apply(ran)
                /\ CallbackDone("final")

\* one browser frame, dt ms after the previous one: every pending highlight
\* loop runs its step(t).  After unmount canvasRef.current is null, so a loop
\* whose closure holds points throws before it can reschedule.
HighlightFrame(dt) ==
    /\ variant = "trace"
    /\ hlFrames # <<>>
    /\ LET aged == [j \in 1..Len(hlFrames) |->
                       [hlFrames[j] EXCEPT !.elapsed = hlFrames[j].elapsed + dt]]
           throws(l) == ~mounted /\ l.hasPoints
           goesOn(l) == ~throws(l) /\ l.elapsed < HighlightMs
           ends(l) == ~throws(l) /\ l.elapsed >= HighlightMs
           ran == [St EXCEPT !.hlFrames = SelectSeq(aged, goesOn)]
           anyEnds == \E j \in 1..Len(aged) : ends(aged[j])
       IN  /\ IF mounted /\ anyEnds
              THEN TraceCommit(St, [ran EXCEPT !.isAddingPoint = FALSE], NoSeed)
              ELSE Apply(ran)
           /\ CallbackDone(IF anyEnds THEN "highlightDone" ELSE "highlight")

(* ---- handlers whose code is the same in both variants ---- *)

Commit(prev, ev, seed) ==
    \E tn \in {Retargeted(prev, ev)} :
        IF variant = "spiral" THEN SpiralCommitTo(prev, ev, tn)
        ELSE TraceCommitTo(prev, ev, seed, tn)

\* onChange of the manual slope range input
SliderM(v) ==
    /\ CanAct
    /\ v # (IF manualM # Null THEN manualM ELSE currentM)
    /\ Commit(St, [St EXCEPT !.manualM = v, !.isAnimating = FALSE], NoSeed)
    /\ UserDone("sliderM")

\* onChange of the manual intercept range input
SliderB(v) ==
    /\ CanAct
    /\ v # (IF manualB # Null THEN manualB ELSE currentB)
    /\ Commit(St, [St EXCEPT !.manualB = v, !.isAnimating = FALSE], NoSeed)
    /\ UserDone("sliderB")

\* onChange of the speed range input
SetSpeed(v, seed) ==
    /\ CanAct
    /\ v # animSpeed
    /\ Commit(St, [St EXCEPT !.animSpeed = v], seed)
    /\ UserDone("speed")

\* onChange of the "Show Residuals" checkbox
ToggleResiduals ==
    /\ CanAct
    /\ Commit(St, [St EXCEPT !.showResiduals = ~showResiduals], NoSeed)
    /\ UserDone("residuals")

\* the theme of ThemeContext is toggled: useTheme() makes the page render
ToggleTheme ==
    /\ CanAct
    /\ Commit(St, [St EXCEPT !.theme = IF theme = "light" THEN "dark" ELSE "light"],
              NoSeed)
    /\ UserDone("theme")

\* React unmounts the component: every effect's cleanup runs
Unmount ==
    /\ CanAct
    /\ Apply(TornDown(St))
    /\ UserDone("unmount")

----------------------------------------------------------------------------
(* CNNVisualizer: src/src/pages/CNNVisualizer.tsx *)

\* sequence of processPipeline: the keys of LAYERS in their order
LayerKeys == <<"input", "conv1", "pool1", "conv2", "pool2", "flatten", "fc">>
Layers == 1..Len(LayerKeys)
Digits == 0..9
CompleteMessage ==
    "Processing complete! This shows the full pipeline of a CNN for digit recognition."

AllIdle == [k \in Layers |-> "idle"]
NoProbs == [d \in Digits |-> 0]
\* no layer canvas holds a drawing
Cleared == [k \in Layers |-> Null]

\* the component after construction: the useState initialisers, empty
\* canvases, no pipeline run; a digit d is held as <<d>>, null as <<>>
CnnMounted ==
    [mounted |-> TRUE, selectedDigit |-> Null, processing |-> FALSE,
     message |-> Null, layerStatus |-> AllIdle, probs |-> NoProbs,
     inputCanvas |-> Null, layerCanvases |-> Cleared, pipelines |-> <<>>]

\* the value of a small natural number given by its limbs
RECURSIVE BSmall(_)
BSmall(a) == IF a = <<>> THEN 0 ELSE a[1] + Limb * BSmall(Tail(a))
\* the integer a double a with no fraction holds
IntOf64(a) == a.s * BSmall(BShl(a.m, a.e))
\* Math.round: the nearest integer, a half goes up; -0 for -0.5 <= a < 0
FRoundFrom(a, floor) ==
    IF FLt(FSub(a, floor), Double(Rat(1, 2))) THEN floor
    ELSE IF floor = FInt(-1) THEN SignedZero64(-1)
    ELSE FAdd(floor, FInt(1))
FRound(a) == FRoundFrom(a, FFloor(a))

RECURSIVE SumTo(_, _)
SumTo(next, d) == IF d < 0 THEN 0 ELSE next[d] + SumTo(next, d - 1)
\* next.reduce((a, b) => a + b, 0)
SumOf(next) == SumTo(next, 9)

\* the for loop inside while (sum > 100), from the digit d on: every other
\* digit above 1 gives one up as long as the sum exceeds 100
RECURSIVE TrimOthers(_, _, _)
TrimOthers(next, digit, d) ==
    IF d > 9 \/ SumOf(next) <= 100 THEN next
    ELSE IF d # digit /\ next[d] > 1
    THEN TrimOthers([next EXCEPT ![d] = @ - 1], digit, d + 1)
    ELSE TrimOthers(next, digit, d + 1)

\* while (sum > 100) { ... }
RECURSIVE Trimmed(_, _)
TrimmedAfter(t, digit) ==
    Trimmed(IF SumOf(t) > 100 THEN [t EXCEPT ![digit] = @ - 1] ELSE t, digit)
Trimmed(next, digit) ==
    IF SumOf(next) <= 100 THEN next
    ELSE TrimmedAfter(TrimOthers(next, digit, 0), digit)

\* inc = Math.round(((i + 1) / sequence.length) * 85), i counted from 0
StageInc(i) ==
    IntOf64(FRound(FMul(FDiv(FInt(i + 1), FInt(Len(LayerKeys))), FInt(85))))
\* Math.max(1, Math.floor(remain / 9)) with remain = Math.max(0, 100 - inc)
OtherShare(inc) ==
    With(IntOf64(FFloor(FDiv(FInt(IF 100 - inc > 0 THEN 100 - inc ELSE 0), FInt(9)))),
         LAMBDA share : IF share > 1 THEN share ELSE 1)
StageFill(digit, inc, share) ==
    Trimmed([d \in Digits |-> IF d = digit THEN inc ELSE share], digit)
\* a stage that gives every digit the same share
StageProbsEven(i, digit) ==
    With(StageInc(i), LAMBDA inc : StageFill(digit, OtherShare(inc), OtherShare(inc)))
\* the array the setProbs of the stage i returns
StageProbs(i, digit) ==
    With(StageInc(i), LAMBDA inc : StageFill(digit, inc, OtherShare(inc)))

\* Math.round((v / s) * 100), a double: NaN for 0 / 0, an infinity for v / 0
FinalShare(v, s) == FRound(FMul(FDiv(FInt(v), FInt(s)), FInt(100)))
\* arr.map((v) => Math.round((v / s) * 100)) with s = arr.reduce((a, b) => a + b, 0)
FinalOf(arr) == [d \in Digits |-> FinalShare(arr[d], SumOf(arr))]
\* a number as probs holds it: an integer as itself, and NaN, an infinity
\* and -0 as the double
Held(a) == IF IsFinite64(a) /\ a # SignedZero64(-1) THEN IntOf64(a) ELSE a
\* the array of the last setProbs: arr is nine times 1 and 90 for the digit
FinalProbs(digit) ==
    With(FinalOf([d \in Digits |-> IF d = digit THEN 90 ELSE 1]),
         LAMBDA final : [d \in Digits |-> Held(final[d])])

\* drawLayer(key, digit): nothing is drawn once the canvases are gone
LayerDrawn(c, k, digit) ==
    IF c.mounted THEN [c EXCEPT !.layerCanvases[k] = <<digit>>] ELSE c

\* the body of the for loop up to its first await, for the layer k
StageBegun(c, k, digit) ==
    LayerDrawn([c EXCEPT !.layerStatus[k] = "running",
                         !.probs = StageProbs(k - 1, digit)], k, digit)

\* a processPipeline without its first line
PipelineUnguarded(c, digit) ==
    StageBegun([c EXCEPT !.processing = TRUE, !.message = Null,
                         !.layerStatus = AllIdle, !.probs = NoProbs,
                         !.pipelines = Append(c.pipelines,
                             [digit |-> digit, layer |-> 1, await |-> "running"])],
               1, digit)

\* processPipeline(digit) up to its first await
processPipeline(c, digit) ==
    IF c.processing THEN c
    ELSE StageBegun([c EXCEPT !.processing = TRUE, !.message = Null,
                              !.layerStatus = AllIdle, !.probs = NoProbs,
                              !.pipelines = Append(c.pipelines,
                                  [digit |-> digit, layer |-> 1, await |-> "running"])],
                    1, digit)

onSelectDigit(c, d) ==
    IF c.processing THEN c
    ELSE [c EXCEPT !.selectedDigit = <<d>>, !.inputCanvas = <<d>>]

handleReset(c) ==
    IF c.processing THEN c
    ELSE [c EXCEPT !.selectedDigit = Null, !.message = Null, !.probs = NoProbs,
                   !.layerStatus = AllIdle, !.layerCanvases = Cleared,
                   !.inputCanvas = Null]

handleProcessClick(c) ==
    IF c.selectedDigit = Null THEN c ELSE processPipeline(c, c.selectedDigit[1])

\* the state updates a continuation of processPipeline makes; after the
\* unmount React drops them
Updated(c, next) == IF c.mounted THEN next ELSE c

\* a stage that is never marked done
StageLeftRunning(c, k) == c

\* setLayerStatus((s) => ({ ...s, [key]: "done" })) after the first await
StageDone(c, k) == Updated(c, [c EXCEPT !.layerStatus[k] = "done"])

\* after the loop: the last setProbs, setProcessing(false), setMessage
PipelineEnded(c, digit) ==
    Updated(c, [c EXCEPT !.probs = FinalProbs(digit), !.processing = FALSE,
                         !.message = CompleteMessage])

Without(runs, j) ==
    [i \in 1..(Len(runs) - 1) |-> IF i < j THEN runs[i] ELSE runs[i + 1]]

\* the continuation of the run j of processPipeline after the timer of its
\* await: 1200 ms after a layer began, 600 ms after it was done
Continued(c, j, run) ==
    IF run.await = "running"
    THEN [StageDone(c, run.layer) EXCEPT !.pipelines[j].await = "done"]
    ELSE IF run.layer < Len(LayerKeys)
    THEN [Updated(c, StageBegun(c, run.layer + 1, run.digit))
             EXCEPT !.pipelines[j] = [digit |-> run.digit, layer |-> run.layer + 1,
                                      await |-> "running"]]
    ELSE [PipelineEnded(c, run.digit) EXCEPT !.pipelines = Without(c.pipelines, j)]

CnnCommit(c) == cnn' = c /\ UNCHANGED <<regression, input, result>>
CnnCanAct == variant = "cnn" /\ cnn.mounted /\ budget > 0

\* a click on the tile of the digit d
SelectDigit(d) ==
    /\ CnnCanAct
    /\ CnnCommit(onSelectDigit(cnn, d))
    /\ UserDone("select")

\* the Reset button
Reset ==
    /\ CnnCanAct
    /\ CnnCommit(handleReset(cnn))
    /\ UserDone("reset")

\* the Process button
ProcessClick ==
    /\ CnnCanAct
    /\ CnnCommit(handleProcessClick(cnn))
    /\ UserDone("process")

\* a timer of the run j fires
PipelineTimer(j) ==
    /\ variant = "cnn"
    /\ j \in 1..Len(cnn.pipelines)
    /\ CnnCommit(Continued(cnn, j, cnn.pipelines[j]))
    /\ CallbackDone(IF cnn.pipelines[j].await = "done"
                       /\ cnn.pipelines[j].layer = Len(LayerKeys)
                    THEN "end" ELSE cnn.pipelines[j].await)

\* React unmounts the page: the refs of the canvases become null
CnnUnmount ==
    /\ CnnCanAct
    /\ CnnCommit([cnn EXCEPT !.mounted = FALSE])
    /\ UserDone("unmount")

----------------------------------------------------------------------------
(* Specification *)

\* the idle component showing the fit of the points ps
ComponentAt(v, b, ps, label) ==
    /\ variant = v
    /\ cnn = CnnMounted
    /\ mounted = TRUE
    /\ theme = "light"
    /\ points = ps
    /\ target = calcRegression(ps)
    /\ currentM = target.m
    /\ currentB = target.b
    /\ manualM = Null
    /\ manualB = Null
    /\ isAnimating = FALSE
    /\ animSpeed = DefaultSpeed
    /\ showResiduals = TRUE
    /\ rafRef = {}
    /\ frames = {}
    /\ timers = <<>>
    /\ isAnimatingLine = FALSE
    /\ isAddingPoint = FALSE
    /\ animationPoints = <<>>
    /\ currentAnimationStep = 0
    /\ chains = <<>>
    /\ hlFrames = <<>>
    /\ hoverIdx = Null
    /\ inpX = <<>>
    /\ inpY = <<>>
    /\ budget = b
    /\ hist = [user |-> label, cb |-> "none"]

InitAt(v, b, ps, label) ==
    /\ ComponentAt(v, b, ps, label)
    /\ input = <<>>
    /\ result = NoCall

\* the component after construction
InitWith(v, b) == InitAt(v, b, DefaultPoints, "mount")

InitSpiral == InitWith("spiral", MaxUserActions)
InitTrace == InitWith("trace", MaxTraceActions)
Init == InitSpiral \/ InitTrace

NextSpiral ==
    \/ \E t \in InputTexts : TypeFields(t[1], t[2])
    \/ SpiralAddPoint
    \/ \E c \in ClickPixels : SpiralClick(c[1], c[2])
    \/ SpiralTimer
    \/ SpiralClear
    \/ SpiralAnimate
    \/ \E s \in frames, dt \in FrameDeltas : SpiralFrame(s, dt)
    \/ \E v \in SliderMVals : SliderM(v)
    \/ \E v \in SliderBVals : SliderB(v)
    \/ \E v \in SpeedVals : SetSpeed(v, NoSeed)
    \/ ToggleResiduals
    \/ ToggleTheme
    \/ Unmount

NextTrace ==
    \/ \E t \in InputTexts : TypeFields(t[1], t[2])
    \/ TraceAddPoint
    \/ TraceClear
    \/ \E seed \in RandomSeeds : TraceAnimate(seed)
    \/ \E i \in 1..Len(chains) : TraceTimer(i)
    \/ \E dt \in FrameDeltas : HighlightFrame(dt)
    \/ \E v \in SliderMVals : SliderM(v)
    \/ \E v \in SliderBVals : SliderB(v)
    \/ \E v \in SpeedVals, seed \in RandomSeeds : SetSpeed(v, seed)
    \/ ToggleResiduals
    \/ ToggleTheme
    \/ Unmount

Next ==
    \/ variant = "spiral" /\ NextSpiral
    \/ variant = "trace" /\ NextTrace

\* both variants
Spec == Init /\ [][Next]_vars
\* src/src/pages/LinearRegression.tsx alone
SpecSpiral == InitSpiral /\ [][NextSpiral]_vars
\* src/unnamed/part_001 alone
SpecTrace == InitTrace /\ [][NextTrace]_vars

(* The page CNNVisualizer: src/src/pages/CNNVisualizer.tsx *)
MaxCnnActions == 4
InitCnn == InitWith("cnn", MaxCnnActions)
NextCnn ==
    \/ \E d \in Digits : SelectDigit(d)
    \/ Reset
    \/ ProcessClick
    \/ \E j \in 1..Len(cnn.pipelines) : PipelineTimer(j)
    \/ CnnUnmount
SpecCnn == InitCnn /\ [][NextCnn]_vars

(* The text fields: src/src/pages/LinearRegression.tsx with every kind of
   field content.  The fields are inputs of type text, whose value holds any
   character but a line feed and a carriage return. *)
MaxInputActions == 2
\* the empty text; e-acute (U+00E9) before "7"; "Infinity"; an ideographic
\* space (U+3000) before "7"; a space, a tab, a no-break space, a thin space
\* (U+2009) and a line separator (U+2028) before "1e0x"
FieldTexts ==
    {<<>>, <<233, 55>>, InfinityText, <<12288, 55>>,
     <<32, 9, 160, 8201, 8232, 49, 101, 48, 120>>}
NextInputs ==
    \/ \E tx \in FieldTexts, ty \in FieldTexts : TypeFields(tx, ty)
    \/ SpiralAddPoint
    \/ \E s \in frames, dt \in FrameDeltas : SpiralFrame(s, dt)
    \/ \E v \in SliderMVals : SliderM(v)
    \/ ToggleResiduals
SpecInputs == InitWith("spiral", MaxInputActions) /\ [][NextInputs]_vars

(* The pointer over the canvas: src/src/pages/LinearRegression.tsx with
   pointer moves, pointer leaves and a duplicate of a default point *)
MaxPointerActions == 2
\* on the default point (1, 3) at (148, 325 5/7); the centre; 11 and 12 px
\* below the centre; far from every point; in the padding margin
MovePixels ==
    {<<148, 326>>, <<348, 210>>, <<348, 221>>, <<348, 222>>, <<500, 100>>, <<20, 210>>}
NextPointer ==
    \/ \E c \in MovePixels : SpiralMove(c[1], c[2])
    \/ SpiralLeave
    \/ \E c \in ClickPixels : SpiralClick(c[1], c[2])
    \/ TypeFields(<<49>>, <<51>>)
    \/ SpiralAddPoint
    \/ SpiralTimer
    \/ SpiralClear
    \/ SpiralAnimate
    \/ \E s \in frames, dt \in FrameDeltas : SpiralFrame(s, dt)
SpecPointer == InitWith("spiral", MaxPointerActions) /\ [][NextPointer]_vars

(* Clicks on and around the border of the plotting area:
   src/src/pages/LinearRegression.tsx after "Clear Data", with a typed point
   whose padded domain has more than four decimals *)
MaxClickActions == 2
\* the centre; the middle of the right edge; two corners of the plotting
\* area; one pixel outside it on the left and below
BorderClicks ==
    {<<348, 210>>, <<648, 210>>, <<48, 372>>, <<648, 48>>, <<47, 210>>, <<348, 373>>}
\* "0.00096" and "0"; "0.41025" and "0"
ClickTexts ==
    {<< <<48, 46, 48, 48, 48, 57, 54>>, <<48>> >>,
     << <<48, 46, 52, 49, 48, 50, 53>>, <<48>> >>}
\* the component after clearPoints on the default points
InitCleared == InitAt("spiral", MaxClickActions, <<>>, "clear")
NextClick ==
    \/ \E c \in BorderClicks : SpiralClick(c[1], c[2])
    \/ \E t \in ClickTexts : TypeFields(t[1], t[2])
    \/ SpiralAddPoint
    \/ SpiralTimer
    \/ SpiralClear
    \/ \E s \in frames, dt \in FrameDeltas : SpiralFrame(s, dt)
SpecClick == InitCleared /\ [][NextClick]_vars

(* Both variants with every kind of step: the handlers and callbacks of Next,
   with "Add Point" pressed on empty fields, on texts that parse and on a
   text that does not, and the pointer moves and leaves of
   LinearRegression.tsx *)
\* canvas positions of the pointer: on the default point (1, 3), and in the
\* padding margin
EveryPixels == {<<148, 326>>, <<20, 210>>}
MaxEveryActions == 2
MaxEveryTraceActions == 1
NextEvery ==
    \/ Next
    \/ \E t \in RejectedTexts : TypeFields(t[1], t[2])
    \/ \E c \in EveryPixels : SpiralMove(c[1], c[2])
    \/ SpiralLeave
InitEvery ==
    \/ InitWith("spiral", MaxEveryActions)
    \/ InitWith("trace", MaxEveryTraceActions)
SpecEvery == InitEvery /\ [][NextEvery]_vars

(* The pure functions on their own: the argument is drawn at the start, and
   a behaviour is one call, on the sequence or on a rearrangement of it. *)
MaxFitLen == 3
FitPoints ==
    {Pt(Rat(3, 10), Num(2)), Pt(Rat(3, 10), Num(3)), Pt(Num(1), Num(2)),
     Pt(Rat(1, 10), Num(1)), Pt(Num(100000001), Num(1)), Pt(Num(100000002), Num(2))}
\* every sequence of up to MaxFitLen of these points, and the points the
\* component is mounted with
FitInputs == UNION {[1..k -> FitPoints] : k \in 0..MaxFitLen} \cup {DefaultLiterals}

Perms(n) == {f \in [1..n -> 1..n] : \A i, j \in 1..n : f[i] = f[j] => i = j}
Permute(ps, f) == [i \in 1..Len(ps) |-> ps[f[i]]]
\* the orders a sequence of n points is tried in: all of them up to MaxFitLen
\* points, its own and the reverse one for a longer sequence
Orders(n) ==
    IF n <= MaxFitLen THEN Perms(n)
    ELSE {[i \in 1..n |-> i], [i \in 1..n |-> n + 1 - i]}

InitFit ==
    /\ ComponentAt("spiral", 0, DefaultPoints, "mount")
    /\ input \in FitInputs
    /\ result = NoCall

\* a behaviour is one call: nothing is called after a call has returned
Idle == result = NoCall
Returned(r) == result' = r /\ UNCHANGED <<input, component>>

\* calcRegression(arg), on the doubles the literals of arg denote
CallCalcRegression(arg) ==
    /\ Idle
    /\ Returned([fn |-> "calcRegression", arg |-> arg,
                 double |-> calcRegression(Points64(arg))])

\* calculateRegression of Compare.tsx with points = input; on the empty
\* sequence reduce throws a TypeError and nothing is returned
CallCalculateRegression ==
    /\ Idle
    /\ Len(input) > 0
    /\ Returned([fn |-> "calculateRegression", arg |-> input,
                 double |-> calculateRegression(Points64(input))])

\* getDomain() with points = input, on the doubles the literals denote
CallGetDomain(floorCeil) ==
    Idle /\ Returned([fn |-> "getDomain", arg |-> input, floorCeil |-> floorCeil,
              double |-> getDomain(Points64(input), floorCeil)])

NextFit ==
    \/ \E arg \in {Permute(input, f) : f \in Orders(Len(input))} :
           CallCalcRegression(arg)
    \/ CallCalculateRegression
    \/ \E fc \in BOOLEAN : CallGetDomain(fc)
SpecFit == InitFit /\ [][NextFit]_vars

(* getDomain, dataToPixel and pixelToData on their own, on doubles: the
   points are drawn at the start and a behaviour is one call. *)
MaxMapLen == 2
\* the literal 1e17
Huge == <<1, 1, 17>>
MapPoints ==
    {Pt(Num(1), Num(3)), Pt(Num(3), Num(4)), Pt(Rat(3, 10), Num(2)), Pt(Huge, Zero)}
MapInputs == UNION {[1..k -> MapPoints] : k \in 0..MaxMapLen} \cup {DefaultLiterals}
\* client sizes of the canvas: W > 2 * PADDING and H > 2 * PADDING
Viewports == {<<CanvasW, CanvasH>>, <<300, 200>>}
\* pixel positions: corners of the canvas and of the plotting area, and inside
MapPixels == {<<0, 0>>, <<PADDING, PADDING>>, <<6, 210>>, <<348, 210>>}

InitMap ==
    /\ ComponentAt("spiral", 0, DefaultPoints, "mount")
    /\ input \in MapInputs
    /\ result = NoCall

\* getDomain() with points = input
CallDomain(floorCeil) ==
    Idle /\ \E qs \in {Numbers64(input)} :
        Returned([fn |-> "getDomain", arg |-> input, points |-> qs,
                  floorCeil |-> floorCeil, double |-> getDomain(qs, floorCeil)])

\* dataToPixel(c.x, c.y, W, H) and pixelToData of what it has returned, both
\* with the domain d that getDomain() returns for points = input
MappedBack(qs, floorCeil, vp, d, q, pixel) ==
    Returned([fn |-> "dataToPixel", arg |-> input, points |-> qs,
              floorCeil |-> floorCeil, viewport |-> vp, domain |-> d,
              data |-> q, pixel |-> pixel,
              back |-> PixelInDomain(pixel[1], pixel[2], vp[1], vp[2], d)])
CallDataToPixel(floorCeil, vp, c) ==
    Idle /\ \E qs \in {Numbers64(input)}, q \in {[x |-> Number64(c.x), y |-> Number64(c.y)]} :
        \E d \in {getDomain(qs, floorCeil)} :
            \E pixel \in {DataInDomain(q.x, q.y, vp[1], vp[2], d)} :
                MappedBack(qs, floorCeil, vp, d, q, pixel)

\* pixelToData(px, py, W, H) and dataToPixel of what it has returned
PixelBack(qs, floorCeil, vp, d, px, data) ==
    Returned([fn |-> "pixelToData", arg |-> input, points |-> qs,
              floorCeil |-> floorCeil, viewport |-> vp, domain |-> d,
              pixel |-> <<FInt(px[1]), FInt(px[2])>>, data |-> data,
              back |-> DataInDomain(data.x, data.y, vp[1], vp[2], d)])
CallPixelToData(floorCeil, vp, px) ==
    Idle /\ \E qs \in {Numbers64(input)} :
        \E d \in {getDomain(qs, floorCeil)} :
            \E data \in {PixelInDomain(FInt(px[1]), FInt(px[2]), vp[1], vp[2], d)} :
                PixelBack(qs, floorCeil, vp, d, px, data)

NextMap ==
    \/ \E fc \in BOOLEAN : CallDomain(fc)
    \/ \E fc \in BOOLEAN, vp \in Viewports, c \in MapPoints : CallDataToPixel(fc, vp, c)
    \/ \E fc \in BOOLEAN, vp \in Viewports, px \in MapPixels : CallPixelToData(fc, vp, px)
SpecMap == InitMap /\ [][NextMap]_vars

\* the placement of the hover tooltip in draw, for a hovered point drawn at
\* (px, py), the widest measured line textWidth and lineCount lines (one
\* for the prediction and one for every point)
TooltipBox(px, py, textWidth, lineCount, width, height) ==
    LET boxWidth == textWidth + 20
        boxHeight == lineCount * 18 + 10
        right == px + 15
        boxX == IF right + boxWidth > width - PADDING
                THEN px - boxWidth - 15 ELSE right
        centred == py - boxHeight \div 2
        lowered == IF centred < PADDING THEN PADDING ELSE centred
        boxY == IF lowered + boxHeight > height - PADDING
                THEN height - PADDING - boxHeight ELSE lowered
    IN  [boxX |-> boxX, boxY |-> boxY, boxWidth |-> boxWidth,
         boxHeight |-> boxHeight]

\* the tooltip alone: one hover per behaviour.  The canvas is 420 high and as
\* wide as its container; the hovered point is drawn inside the plot area.
MaxTipPoints == 20
TipWidths == {CanvasW, 300}
TipTextWidths == {60, 150}
TipCounts == {1, 5, 17, MaxTipPoints}
TipXs(width) == {PADDING, 100, width \div 2, width - PADDING}
TipYs == {PADDING, CanvasH \div 2, CanvasH - PADDING}
TipInputs ==
    {[width |-> w, px |-> x, py |-> y, textWidth |-> t, count |-> n] :
        w \in TipWidths, x \in UNION {TipXs(v) : v \in TipWidths},
        y \in TipYs, t \in TipTextWidths, n \in TipCounts}
InitTip ==
    /\ ComponentAt("spiral", 0, DefaultPoints, "mount")
    /\ input \in {i \in TipInputs : i.px \in TipXs(i.width)}
    /\ result = NoCall
CallTooltip ==
    /\ Idle
    /\ Returned([fn |-> "tooltip", arg |-> input, height |-> CanvasH,
                 box |-> TooltipBox(input.px, input.py, input.textWidth,
                                    input.count + 1, input.width, CanvasH)])
NextTip == CallTooltip
SpecTip == InitTip /\ [][NextTip]_vars

\* step alone: one session per behaviour, seen at two frames, the first
\* elapsed ms and the second later ms after its start
EaseSpeeds == {DefaultSpeed, 5}
MaxEaseMs == 400
EaseTimes == {0, 40, 80, 159, 160, 161, 240, 320, MaxEaseMs}
EaseLines == {<<Num(-5), Rat(6, 5)>>, <<Zero, One>>, <<Rat(9, 5), Num(-10)>>}
EaseInputs ==
    {[duration |-> Duration(v), elapsed |-> e, later |-> l,
      start |-> c[1], target |-> c[2]] :
        v \in EaseSpeeds, e \in EaseTimes, l \in EaseTimes, c \in EaseLines}
InitEase ==
    /\ ComponentAt("spiral", 0, DefaultPoints, "mount")
    /\ input \in {i \in EaseInputs : i.elapsed < i.later}
    /\ result = NoCall
Stepped(norm, ease, start, end, easeLater) ==
    Returned([fn |-> "step", arg |-> input, norm |-> norm, ease |-> ease,
              spiralRadius |-> SpiralRadius64(ease),
              start |-> start, target |-> end,
              base |-> Base64(start, end, ease),
              settled |-> FAdd(start, FSub(end, start)),
              easeLater |-> easeLater])
CallStep(away, awayLater) ==
    /\ Idle
    /\ \E norm \in {Norm64(input.elapsed, input.duration)},
          normLater \in {Norm64(input.later, input.duration)} :
          Stepped(norm, Ease64(norm, away), Double(input.start),
                  Double(input.target), Ease64(normLater, awayLater))
NextEase == \E away, awayLater \in BOOLEAN : CallStep(away, awayLater)
SpecEase == InitEase /\ [][NextEase]_vars

\* a timer or a requested frame of the component runs
CallbackStep ==
    \/ SpiralTimer
    \/ \E s \in frames, dt \in FrameDeltas : SpiralFrame(s, dt)
    \/ \E i \in 1..Len(chains) : TraceTimer(i)
    \/ \E dt \in FrameDeltas : HighlightFrame(dt)

\* some callback is pending: the states in which CallbackStep is enabled
Pending == timers # <<>> \/ frames # {} \/ chains # <<>> \/ hlFrames # <<>>

\* The browser's event loop runs a pending timer or requested frame: weak
\* fairness of CallbackStep, written with the predicate Pending that equals
\* ENABLED <<CallbackStep>>_vars.  User actions are under no obligation.
Callbacks == <>[]Pending => []<><<CallbackStep>>_vars
InitLive ==
    \/ InitWith("spiral", MaxLiveActions)
    \/ InitWith("trace", MaxLiveTraceActions)
LiveSpec == InitLive /\ [][Next]_vars /\ Callbacks

----------------------------------------------------------------------------
(* Properties *)

\* targetM, targetB: calcRegression of the current point sequence
Target == calcRegression(points)

ManualCleared == manualM = Null /\ manualB = Null

SliderMoved == hist.user \in {"sliderM", "sliderB"}

\* C1: spiral variant; when a session ends by completion (the frame at which
\* norm reaches 1) the displayed line is exactly the regression target of the
\* current point sequence and isAnimating is false.
C1_CompletionSetsTarget ==
    hist.cb = "frameDone" =>
        /\ currentM = Target.m
        /\ currentB = Target.b
        /\ ~isAnimating

\* a session that was retargeted by an added point has completed
C1_Witness ==
    /\ hist.cb = "frameDone"
    /\ hist.user = "add"
    /\ currentM = Target.m /\ currentB = Target.b
    /\ currentM # calcRegression(DefaultPoints).m

\* C2: in every variant at most one animation callback chain that writes the
\* displayed line (a frame loop or a step-timer chain) is pending at any time.
C2_OneChainPending == Cardinality(frames) + Len(chains) <= 1

\* C3: after Clear, and until the next user action, the point sequence is
\* empty, the override is cleared, the regression result is (0,0,0) and the
\* displayed line is and stays (0,0): no callback scheduled before Clear
\* changes it.
C3_ClearStaysZero ==
    (mounted /\ hist.user = "clear") =>
        /\ points = <<>>
        /\ ManualCleared
        /\ Target = [m |-> Zero64, b |-> Zero64, error |-> Zero64]
        /\ currentM = Zero64
        /\ currentB = Zero64

\* C4: after a manual slope or intercept is set, and until the next user
\* action, the state is Idle, no frame callback or step timer of a session is
\* pending, and the value the slider set is the displayed one.
C4_ManualHaltsSession ==
    (mounted /\ SliderMoved) =>
        /\ ~isAnimating
        /\ ~isAnimatingLine
        /\ frames = {}
        /\ chains = <<>>
        /\ (hist.user = "sliderM" => currentM = manualM)
        /\ (hist.user = "sliderB" => currentB = manualB)

\* C5: whenever no animation is active and no manual override is set, the
\* displayed line is the regression result of the current point sequence
\* (both variants).
C5_IdleShowsFit ==
    (mounted /\ ~isAnimating /\ ~isAnimatingLine /\ ManualCleared) =>
        (currentM = Target.m /\ currentB = Target.b)

\* C6: whenever a manual slope is set the displayed slope equals it, and
\* whenever a manual intercept is set the displayed intercept equals it, for
\* every slider value (0 included) and every order of the two sliders.
C6_ManualPinsDisplayed ==
    mounted =>
        /\ (manualM # Null => currentM = manualM)
        /\ (manualB # Null => currentB = manualB)

\* C7: spiral variant; an active animation session implies that no manual
\* override is set.
C7_AnimatingImpliesNoManual == isAnimating => ManualCleared

\* exactly one session is pending, it is the one rafRef holds, it runs toward
\* the line t, and no override is set
OneSessionToward(t) ==
    /\ ManualCleared
    /\ isAnimating
    /\ Cardinality(frames) = 1
    /\ frames = rafRef
    /\ \A s \in frames : s.targetM = t.m /\ s.targetB = t.b

\* C8: spiral variant; every point addition leaves the override cleared and
\* exactly one session running toward the fit of the extended sequence: at
\* once for a text entry, and when the 50 ms timer fires for a click (the
\* sequence is then the one the component holds).
C8_AddStartsOneSession ==
    [][/\ (budget' < budget /\ hist'.user = "add") =>
              \E t \in {calcRegression(points')} : OneSessionToward(t)'
       /\ (mounted /\ timers # <<>> /\ timers' = Tail(timers)) =>
              \E t \in {calcRegression(points')} : OneSessionToward(t)'
      ]_vars

\* an animation session is active / none is and nothing of one is left
Active == isAnimating \/ isAnimatingLine
Quiet == ~isAnimating /\ ~isAnimatingLine /\ animationPoints = <<>>

\* C9: under fair execution of frame callbacks and timers, a session that is
\* active in the mounted component terminates: eventually isAnimating and
\* isAnimatingLine are false and the synthetic sequence is empty (or the
\* component has been unmounted).  No user action is needed for it: a
\* behaviour may contain no further user action at any point.
C9_SessionTerminates == (mounted /\ Active) ~> (Quiet \/ ~mounted)

\* a session has run to its end with no user action after the one that started it
C9_Witness ==
    /\ mounted /\ Quiet
    /\ hist.user \in {"add", "animate"}
    /\ hist.cb \in {"frameDone", "final"}

\* C10: after unmount no callback scheduled by the component remains pending:
\* no animation frame, no 50 ms timer, no step timer, no highlight frame loop.
C10_NothingPendingAfterUnmount ==
    ~mounted => (frames = {} /\ timers = <<>> /\ chains = <<>> /\ hlFrames = <<>>)

\* everything but the exploration's own bookkeeping
state ==
    <<variant, mounted, theme, points, target, currentM, currentB, manualM, manualB,
      isAnimating, animSpeed, showResiduals, rafRef, frames, timers,
      isAnimatingLine, isAddingPoint, animationPoints, currentAnimationStep,
      chains, hlFrames, hoverIdx, inpX, inpY>>

\* a step of the "Add Point" button
AddPressed == budget' < budget /\ hist'.user \in {"add", "reject"}

\* both fields parse to finite numbers
FieldsFinite == NumberIsFinite(parseFloat(inpX)) /\ NumberIsFinite(parseFloat(inpY))

\* C11: when either text field fails to parse to a finite number,
\* addPointFromInputs changes no state: the points, the manual override, the
\* animation flag, the residual toggle, the displayed line and the contents
\* of both fields stay as they were.
C11_RejectedAddChangesNothing ==
    [][(AddPressed /\ ~FieldsFinite) => UNCHANGED state]_vars

\* "Add Point" was pressed on a finite x and a y that is no number, while a
\* manual slope was set; the fields still hold the texts
C11_Witness ==
    /\ hist.user = "reject"
    /\ NumberIsFinite(parseFloat(inpX))
    /\ ~NumberIsFinite(parseFloat(inpY))
    /\ manualM # Null

\* a step of a user action with one of the labels
UserStep(labels) == budget' < budget /\ hist'.user \in labels

\* C12: the point sequence changes only through a successful add (from the
\* fields or by a click), which appends exactly one point at the end and keeps
\* every earlier point in place even when an equal point is present, or
\* through Clear; every other step (a rejected add, animation frames and
\* timers, the steps of a stepwise trace, pointer moves, sliders, speed,
\* residual toggle, unmount) leaves it unchanged.
C12_PointsFrame ==
    [][IF UserStep({"add", "click"})
       THEN /\ Len(points') = Len(points) + 1
            /\ SubSeq(points', 1, Len(points)) = points
       ELSE IF UserStep({"clear"}) THEN points' = <<>>
       ELSE points' = points]_vars

\* a point equal to the first default point was added from the fields and is
\* kept as a seventh point after the click that came before it
C12_Witness ==
    /\ hist.user = "add"
    /\ Len(points) = Len(DefaultPoints) + 2
    /\ points[Len(points)] = points[1]
    /\ SubSeq(points, 1, Len(DefaultPoints)) = DefaultPoints

\* the rectangle PADDING <= px <= W - PADDING, PADDING <= py <= H - PADDING
InPlotArea(px, py) ==
    /\ PADDING <= px /\ px <= CanvasW - PADDING
    /\ PADDING <= py /\ py <= CanvasH - PADDING

\* the exact difference a - b of two finite doubles: sign s, magnitude
\* m * 2^e
ExactDiffAt(a, b, e, ma, mb) ==
    IF a.s # b.s THEN [s |-> a.s, m |-> BAdd(ma, mb), e |-> e]
    ELSE IF BCmp(ma, mb) >= 0 THEN [s |-> a.s, m |-> BSub(ma, mb), e |-> e]
    ELSE [s |-> -a.s, m |-> BSub(mb, ma), e |-> e]
ExactDiffTo(a, b, e) == ExactDiffAt(a, b, e, BShl(a.m, a.e - e), BShl(b.m, b.e - e))
ExactDiff(a, b) == ExactDiffTo(a, b, IF a.e < b.e THEN a.e ELSE b.e)

\* exact magnitudes [m, e] of value m * 2^e: the sum and the order
MagAddTo(p, q, e) == [m |-> BAdd(BShl(p.m, p.e - e), BShl(q.m, q.e - e)), e |-> e]
MagAdd(p, q) == MagAddTo(p, q, IF p.e < q.e THEN p.e ELSE q.e)
MagLtAt(p, q, e) == BCmp(BShl(p.m, p.e - e), BShl(q.m, q.e - e)) < 0
MagLt(p, q) == MagLtAt(p, q, IF p.e < q.e THEN p.e ELSE q.e)
MagNat(n) == [m |-> BNat(n), e |-> 0]

\* p lies in the domain d, bounds included
InDomain(p, d) ==
    /\ ~FLt(p.x, d.xmin) /\ ~FLt(d.xmax, p.x)
    /\ ~FLt(p.y, d.ymin) /\ ~FLt(d.ymax, p.y)

\* pixelToData(px, py) rounded to 4 decimals, for the points ps
ClickedPoint(px, py, ps) ==
    With(pixelToData(FInt(px), FInt(py), CanvasW, CanvasH, ps, FALSE),
         LAMBDA data : Pt(ToFixed4(data.x), ToFixed4(data.y)))

\* C13: a canvas click at (px, py) with PADDING <= px <= W - PADDING and
\* PADDING <= py <= H - PADDING appends exactly the point pixelToData(px, py)
\* rounded to 4 decimals, and that point lies inside the domain in force at
\* the time of the click; a click outside that rectangle changes no state at
\* all.
C13_ClickAppendsInsideDomain ==
    [][UserStep({"click", "miss"}) =>
          IF InPlotArea(hist'.at[1], hist'.at[2])
          THEN /\ points' = Append(points, ClickedPoint(hist'.at[1], hist'.at[2], points))
               /\ InDomain(points'[Len(points')], getDomain(points, FALSE))
          ELSE UNCHANGED state]_vars

\* the tooltip block of draw is entered
TooltipDrawn == hoverIdx # Null

\* C14: while an animation session is active, a pointer move changes neither
\* the hover state nor any other state, and no hover tooltip is drawn for as
\* long as the session is active.
C14_MoveIgnoredWhileAnimating ==
    /\ [][(Active /\ UserStep({"move"})) => UNCHANGED state]_vars
    /\ [](Active => ~TooltipDrawn)

\* the exact square of the distance between the pixel c a point is drawn at
\* and the pointer at (px, py)
SquareOfLeg(l) == [m |-> BMul(l.m, l.m), e |-> 2 * l.e]
SquaredDistance(c, px, py) ==
    MagAdd(SquareOfLeg(ExactDiff(c[1], FInt(px))), SquareOfLeg(ExactDiff(c[2], FInt(py))))
SquaredDistances(ps, d, px, py) ==
    [i \in 1..Len(ps) |->
        SquaredDistance(DataInDomain(ps[i].x, ps[i].y, CanvasW, CanvasH, d), px, py)]

\* the indexes (1-based) of the points of ps less than 12 px from (px, py)
WithinRadius(ps, ds) ==
    {i \in 1..Len(ps) : MagLt(ds[i], MagNat(HoverRadius * HoverRadius))}

\* those of the set near at the smallest distance
Closest(near, ds) == {i \in near : \A j \in near : ~MagLt(ds[j], ds[i])}

\* the lowest 0-based index of the set best, none when it is empty
LowestOf(best) ==
    IF best = {} THEN Null
    ELSE FInt((CHOOSE i \in best : \A j \in best : i <= j) - 1)

\* the point a pointer at (px, py) hovers
HoverTarget(ps, px, py) ==
    IF ~InPlotArea(px, py) THEN Null
    ELSE With(SquaredDistances(ps, getDomain(ps, FALSE), px, py),
              LAMBDA ds : LowestOf(Closest(WithinRadius(ps, ds), ds)))

\* C15: with no animation active, a pointer move to a position inside the
\* plot interior sets the hovered index to the lowest-index point among those
\* at the smallest pixel distance from the pointer when that distance is below
\* 12 px, and to none otherwise; a pointer leave or a move into the padding
\* margin clears the hover.
C15_HoverIsNearest ==
    [][(~Active /\ UserStep({"move", "leave"})) =>
          hoverIdx' = IF hist'.user = "leave" THEN Null
                      ELSE HoverTarget(points, hist'.at[1], hist'.at[2])]_vars

\* with no animation active the pointer went to the pixel of the default
\* point (1, 3), where the typed copy of it lies too: the default point of
\* index 0 is hovered
C15_Witness ==
    /\ hist.user = "move" /\ hist.cb = "none"
    /\ ~Active
    /\ Len(points) = Len(DefaultPoints) + 1
    /\ points[Len(points)] = points[1]
    /\ hoverIdx = FInt(0)

\* C16: in every reachable state the hovered index is none or a valid index
\* into the current point sequence, so that draw reads no missing point and
\* does not throw; in particular after Clear with a point hovered.
C16_HoverIdxValid == hoverIdx = Null \/ FLt(hoverIdx, FInt(Len(points)))

\* a call of fn has returned
Called(fn) == result.fn = fn

\* C17: for the empty point sequence calcRegression returns slope 0,
\* intercept 0 and error 0, and getDomain returns xmin = 0, xmax = 10,
\* ymin = 0, ymax = 10.
C17_EmptySequence ==
    /\ (Called("calcRegression") /\ result.arg = <<>>) =>
           result.double = [m |-> Zero64, b |-> Zero64, error |-> Zero64]
    /\ (Called("getDomain") /\ result.arg = <<>>) =>
           result.double = [xmin |-> Zero64, xmax |-> FInt(10),
                            ymin |-> Zero64, ymax |-> FInt(10)]

C17_Witness ==
    /\ Called("getDomain")
    /\ result.arg = <<>>
    /\ result.double.xmax = FInt(10)
    /\ result.double.ymax = FInt(10)

\* the x values of the points qs are one double / at least two doubles
AllXEqual(qs) == \A i \in 1..Len(qs) : qs[i].x = qs[1].x
DistinctXs(qs) == \E i, j \in 1..Len(qs) : qs[i].x # qs[j].x
\* the mean of the y values: their sum, folded from 0 as sumY is, over n
MeanY(qs) == FDiv(FSum(Ys64(qs)), FInt(Len(qs)))
\* the argument of the call that has returned, as doubles
Arg64 == Points64(result.arg)

\* C18: for every non-empty point sequence whose x values are all equal,
\* calcRegression returns slope 0 and the mean of the y values as intercept.
C18_EqualXsGiveMeanLine ==
    (Called("calcRegression") /\ result.arg # <<>> /\ AllXEqual(Arg64)) =>
        /\ result.double.m = Zero64
        /\ result.double.b = MeanY(Arg64)

\* C19: for every point sequence with at least two distinct x values, the
\* slope and intercept calcRegression computes from the sums equal the ones
\* calculateRegression of Compare.tsx computes around the means.
C19_SumsEqualCentred ==
    (Called("calculateRegression") /\ DistinctXs(Arg64)) =>
        /\ calcRegression(Arg64).m = result.double.slope
        /\ calcRegression(Arg64).b = result.double.intercept

\* C20: for every point sequence and every permutation of it, calcRegression
\* returns the same slope, intercept and error.
C20_OrderInvariant ==
    Called("calcRegression") =>
        result.double = calcRegression(Points64(input))

\* C21: for the default point set (1,3),(2,5),(3,4),(4,7),(5,8), in the order
\* of the source or in the reverse order,
\* calcRegression returns slope 1.2 and intercept 1.4.
C21_DefaultFit ==
    (Called("calcRegression") /\ input = DefaultLiterals)
        => /\ result.double.m = Double(Rat(6, 5))
           /\ result.double.b = Double(Rat(7, 5))

\* C21 as amended: calcRegression returns the doubles 1.2 and 1.8 for the
\* default point set in both orders.
C21_DefaultFitIntercept ==
    (Called("calcRegression") /\ input = DefaultLiterals)
        => /\ result.double.m = Double(Rat(6, 5))
           /\ result.double.b = Double(Rat(9, 5))

\* calcRegression has returned for the default points in another order
C21_Witness ==
    /\ Called("calcRegression")
    /\ input = DefaultLiterals
    /\ result.arg # DefaultLiterals
    /\ result.double.b = Double(Rat(9, 5))

\* getDomain has returned for a non-empty point sequence
DomainCalled == Called("getDomain") /\ result.arg # <<>>

\* C22: for a domain derived from a non-empty point sequence, pixelToData
\* of dataToPixel(x, y, W, H) is (x, y), and dataToPixel of
\* pixelToData(px, py, W, H) is (px, py).
C22_RoundTrip ==
    /\ (Called("dataToPixel") /\ result.arg # <<>>) => result.back = result.data
    /\ (Called("pixelToData") /\ result.arg # <<>>) => result.back = result.pixel

AllEqual(ts) == \A i, j \in 1..Len(ts) : ts[i] = ts[j]
\* max - min is at least k
SpanAtLeast(min, max, k) == ~FLt(FSub(max, min), FInt(k))

\* C23: when all values of a non-empty point sequence on an axis are equal,
\* the domain getDomain returns has a span of at least 5 on that axis.
C23_FlatAxisSpan ==
    DomainCalled =>
        /\ AllEqual(Xs64(result.points))
               => SpanAtLeast(result.double.xmin, result.double.xmax, 5)
        /\ AllEqual(Ys64(result.points))
               => SpanAtLeast(result.double.ymin, result.double.ymax, 5)

\* pad = max(1, 0.15 * (max - min)) of the coordinates ts
PadOf(ts) == FMax(FInt(1), FMul(Double(Rat(15, 100)), FSub(MaxOf(ts), MinOf(ts))))
IsInteger64(a) == IsFinite64(a) /\ (a.m = <<>> \/ a.e >= 0)
\* <<min, max>> is floor(min ts - pad), ceil(max ts + pad)
FlooredAxis(ts, min, max) ==
    /\ min = FFloor(FSub(MinOf(ts), PadOf(ts)))
    /\ max = FCeil(FAdd(MaxOf(ts), PadOf(ts)))
    /\ IsInteger64(min) /\ IsInteger64(max)

\* C24: in every variant, for a non-empty point sequence getDomain returns
\* xmin = floor(min x - pad) and xmax = ceil(max x + pad) with
\* pad = max(1, 0.15 * (max x - min x)), the same for y, and so four integers.
C24_FlooredBounds ==
    DomainCalled =>
        /\ FlooredAxis(Xs64(result.points), result.double.xmin, result.double.xmax)
        /\ FlooredAxis(Ys64(result.points), result.double.ymin, result.double.ymax)

\* the points lie strictly between the bounds of the domain d
StrictlyInside(qs, d) ==
    \A i \in 1..Len(qs) :
        /\ FLt(d.xmin, qs[i].x) /\ FLt(qs[i].x, d.xmax)
        /\ FLt(d.ymin, qs[i].y) /\ FLt(qs[i].y, d.ymax)
\* dataToPixel puts the points strictly inside the plotting area of the canvas
DrawnInside(qs, d) ==
    \A i \in 1..Len(qs) :
        \E c \in {DataInDomain(qs[i].x, qs[i].y, CanvasW, CanvasH, d)} :
            /\ FLt(FInt(PADDING), c[1]) /\ FLt(c[1], FInt(CanvasW - PADDING))
            /\ FLt(FInt(PADDING), c[2]) /\ FLt(c[2], FInt(CanvasH - PADDING))

\* C30: for a non-empty point sequence the domain strictly contains every
\* point and spans at least 2 on each axis, so that dataToPixel does not
\* divide by zero and draws every point strictly inside the plotting area.
C30_DomainContainsPoints ==
    DomainCalled =>
        /\ StrictlyInside(result.points, result.double)
        /\ SpanAtLeast(result.double.xmin, result.double.xmax, 2)
        /\ SpanAtLeast(result.double.ymin, result.double.ymax, 2)
        /\ DrawnInside(result.points, result.double)

\* a timer of a step chain has run: animateStep below the last step ("step"),
\* animateStep past it ("fit"), or the closing callback ("final")
ChainTimerRan(label) ==
    budget' = budget /\ chains' # chains /\ hist'.cb = label

\* C25: in a stepwise-trace session every step timer moves the cursor to the
\* next index, from 0 up to 11; the cursor is an index of the synthetic
\* sequence while that sequence is non-empty; and the displayed line is set
\* to the fit of the synthetic sequence only with the cursor on the last index.
C25_CursorInOrder ==
    /\ [][(mounted /\ ChainTimerRan("step"))
             => currentAnimationStep' = currentAnimationStep + 1]_vars
    /\ [](animationPoints # <<>>
             => currentAnimationStep \in 0..(Len(animationPoints) - 1))
    /\ [][(mounted /\ ChainTimerRan("fit"))
             => /\ currentAnimationStep = TraceCount - 1
                /\ animationPoints # <<>>
                      => \E fit \in {calcRegression(animationPoints)} :
                             currentM' = fit.m /\ currentB' = fit.b]_vars

\* C26: when the closing callback of a stepwise-trace session has run, the
\* synthetic sequence is empty, isAnimating and isAnimatingLine are false and
\* showResiduals is true.
C26_SessionCompleted ==
    [][(mounted /\ ChainTimerRan("final"))
          => /\ animationPoints' = <<>>
             /\ ~isAnimating'
             /\ ~isAnimatingLine'
             /\ showResiduals']_vars

\* a session was started with the button and has run to its closing callback
C26_Witness ==
    /\ mounted /\ hist.user = "animate" /\ hist.cb = "final"
    /\ chains = <<>> /\ animationPoints = <<>>
    /\ ~isAnimating /\ ~isAnimatingLine /\ showResiduals
    /\ currentAnimationStep = TraceCount - 1

\* C27: the box of a drawn tooltip lies within the viewport, horizontally
\* and vertically.
C27_TooltipInViewport ==
    Called("tooltip") =>
        /\ 0 <= result.box.boxX
        /\ result.box.boxX + result.box.boxWidth <= result.arg.width
        /\ 0 <= result.box.boxY
        /\ result.box.boxY + result.box.boxHeight <= result.height

\* C28: as long as the user has done nothing since the mount, the points are
\* (1,3), (2,5), (3,4), (4,7), (5,8), the displayed line is y = 6/5 x + 9/5,
\* neither manual value is set, no animation runs and no point is hovered.
C28_MountState ==
    hist.user = "mount" =>
        /\ points = <<Pt(FInt(1), FInt(3)), Pt(FInt(2), FInt(5)), Pt(FInt(3), FInt(4)),
                      Pt(FInt(4), FInt(7)), Pt(FInt(5), FInt(8))>>
        /\ currentM = Double(Rat(6, 5)) /\ currentB = Double(Rat(9, 5))
        /\ manualM = Null /\ manualB = Null
        /\ ~isAnimating /\ frames = {} /\ rafRef = {}
        /\ hoverIdx = Null

\* the mounted component before the first user action
C28_Witness ==
    /\ variant = "spiral" /\ mounted
    /\ hist = [user |-> "mount", cb |-> "none"]
    /\ budget = MaxUserActions
    /\ Len(points) = 5 /\ currentM = Double(Rat(6, 5))

\* the ease and the radius of a step: the three fixed values, the order of
\* two frames of one session, and the range of the radius
EaseShape ==
    /\ result.arg.elapsed = 0 => result.ease = Zero64
    /\ 2 * result.arg.elapsed = result.arg.duration => result.ease = Double(Rat(1, 2))
    /\ result.arg.elapsed >= result.arg.duration
          => result.ease = FInt(1) /\ result.spiralRadius = Zero64
    /\ FLe(result.ease, result.easeLater)
    /\ FLe(Zero64, result.spiralRadius) /\ FLe(result.spiralRadius, FInt(1))

Between64(v, a, b) == (FLe(a, v) /\ FLe(v, b)) \/ (FLe(b, v) /\ FLe(v, a))

\* C29: the ease is 0, 1/2 and 1 at norm 0, 1/2 and 1 and does not decrease
\* from a frame to a later one, the spiral radius is within [0, 1] and 0 at
\* norm 1, and the base value start + (target - start) * ease lies between
\* start and target.
C29_EaseInOut ==
    Called("step") =>
        /\ EaseShape
        /\ Between64(result.base, result.start, result.target)

\* C29 with the base value between start and start + (target - start), the
\* sum as the code computes it
C29_EaseInOutRounded ==
    Called("step") =>
        /\ EaseShape
        /\ Between64(result.base, result.start, result.settled)

\* the last frame of a session from slope -5 to slope 1.2: the base value is
\* the computed sum, one rounding step above the target
C29_Witness ==
    /\ Called("step")
    /\ result.arg.elapsed >= result.arg.duration
    /\ result.start = FInt(-5) /\ result.target = Double(Rat(6, 5))
    /\ result.base = result.settled
    /\ FLt(result.target, result.base)

\* the residuals y - (m * x + b) of the points against a line, as draw
\* computes them
Residuals64(qs, m, b) ==
    [i \in 1..Len(qs) |-> FSub(qs[i].y, FAdd(FMul(m, qs[i].x), b))]

\* C31 as stated: for every non-empty point sequence the residuals against
\* the line calcRegression returns sum to zero.
C31_ResidualsSumToZero ==
    (Called("calcRegression") /\ result.arg # <<>>) =>
        FSum(Residuals64(Arg64, result.double.m, result.double.b)) = Zero64

\* the exact magnitude of a finite double, and of the product of two
Mag64(a) == [m |-> a.m, e |-> a.e]
MagProduct(a, b) == [m |-> BMul(a.m, b.m), e |-> a.e + b.e]
\* the exact sum over the points of |y| + |m * x| + |b|
RECURSIVE SizeFrom(_, _, _, _, _)
SizeFrom(qs, m, b, i, acc) ==
    IF i > Len(qs) THEN acc
    ELSE SizeFrom(qs, m, b, i + 1,
             MagAdd(acc, MagAdd(Mag64(qs[i].y),
                                MagAdd(MagProduct(m, qs[i].x), Mag64(b)))))
\* |sum| <= n * 2^-50 * size: the bound of the rounding errors of the
\* residuals, of their sum and of the sums and the quotient b is made of
WithinRounding(sum, n, size) ==
    /\ IsFinite64(sum)
    /\ ~MagLt([m |-> BMul(size.m, BNat(n)), e |-> size.e - 50], Mag64(sum))
ResidualsSum(qs, m, b) == FSum(Residuals64(qs, m, b))

\* C31 amended: the residuals sum to zero up to the rounding of the doubles:
\* the absolute value of their sum is at most n * 2^-50 times the sum over
\* the points of |y| + |m * x| + |b|, also when all x are equal.
C31_ResidualsSumToRounding ==
    (Called("calcRegression") /\ result.arg # <<>>) =>
        WithinRounding(ResidualsSum(Arg64, result.double.m, result.double.b),
                       Len(result.arg),
                       SizeFrom(Arg64, result.double.m, result.double.b, 1, MagNat(0)))

\* three points with one x, a slope that is not 0 and residuals that do
\* not sum to 0
C31_Witness ==
    /\ Called("calcRegression")
    /\ Len(result.arg) = 3
    /\ AllXEqual(Arg64)
    /\ result.double.m # Zero64
    /\ ResidualsSum(Arg64, result.double.m, result.double.b) # Zero64

\* the sum of the squared residuals of the points against a line, as text
\* with four decimals
SumOfSquaresText(qs, line) ==
    Fixed4Text(FSum([i \in 1..Len(qs) |->
        FMul(Residuals64(qs, line.m, line.b)[i], Residuals64(qs, line.m, line.b)[i])]))

\* C32: the total error of the legend is the sum of squared residuals of the
\* least-squares fit of the current points; a step that leaves the points
\* unchanged leaves it unchanged; the equation beside it is that of the
\* displayed line.
C32_TotalErrorOfFit ==
    /\ [](Legend(St).totalError = SumOfSquaresText(points, Target))
    /\ [](Legend(St).equation = <<Fixed4Text(currentM), Fixed4Text(currentB)>>)
    /\ [][points' = points => Legend(St').totalError = Legend(St).totalError]_vars

\* a manual slope is displayed: the equation is not that of the fit, and the
\* total error is not the error of the displayed line
C32_Witness ==
    /\ mounted /\ hist.user = "sliderM" /\ manualM # Null
    /\ points # <<>>
    /\ currentM = manualM /\ currentM # Target.m
    /\ Legend(St).equation[1] # Fixed4Text(Target.m)
    /\ Legend(St).totalError # SumOfSquaresText(points, [m |-> currentM, b |-> currentB])


(* ---- CNNVisualizer ---- *)

\* the first n layers are done, the layer after them has the status next,
\* the others are idle
LayersAt(n, next) ==
    \A k \in Layers :
        cnn.layerStatus[k] = IF k <= n THEN "done" ELSE IF k = n + 1 THEN next ELSE "idle"

\* the step in which a run of processPipeline ends on the mounted page
PipelineEnds == cnn.mounted /\ cnn.pipelines # <<>> /\ cnn'.pipelines = <<>>

\* C33: the seven layers are processed in the order of LayerKeys: at every
\* moment at most one layer is running, every layer before it is done and
\* every layer after it idle; when the run ends all seven layers are done,
\* processing is false and the completion message is set
C33_LayersInOrder ==
    /\ [](cnn.mounted => \E n \in 0..Len(LayerKeys) : LayersAt(n, "running") \/ LayersAt(n, "idle"))
    /\ [][PipelineEnds => /\ \A k \in Layers : cnn'.layerStatus[k] = "done"
                          /\ cnn'.processing = FALSE
                          /\ cnn'.message = CompleteMessage]_vars

C33_Witness ==
    /\ cnn.mounted /\ hist.cb = "end"
    /\ LayersAt(Len(LayerKeys), "idle")
    /\ ~cnn.processing /\ cnn.message = CompleteMessage

\* a step of the user: a click on a digit, on Reset or on Process
UserClicks ==
    budget' = budget - 1 /\ hist'.user \in {"select", "reset", "process"}

\* C34: while processing is true a click on a digit, on Reset or on Process
\* changes nothing of the component, so exactly one run of processPipeline
\* is active and it works on the digit that was selected when it began
C34_OneRun ==
    /\ [][cnn.processing /\ UserClicks => cnn' = cnn]_vars
    /\ [](cnn.mounted =>
            /\ cnn.processing <=> cnn.pipelines # <<>>
            /\ cnn.processing =>
                  /\ Len(cnn.pipelines) = 1
                  /\ cnn.selectedDigit = <<cnn.pipelines[1].digit>>)

C34_Witness ==
    /\ cnn.mounted /\ cnn.processing
    /\ hist.user = "reset" /\ hist.cb = "none"
    /\ Len(cnn.pipelines) = 1
    /\ cnn.pipelines[1].layer = 3
    /\ cnn.selectedDigit = <<cnn.pipelines[1].digit>>
    /\ LayersAt(2, "running")

\* every probability is at least 1, the sum is at most 100 and the
\* probability of digit is above every other
Confident(probs, digit) ==
    /\ \A d \in Digits : probs[d] >= 1
    /\ SumOf(probs) <= 100
    /\ \A d \in Digits \ {digit} : probs[digit] > probs[d]

\* C35: after every stage and at the end of a run on any digit 0..9 each of
\* the ten probabilities is at least 1 and their sum at most 100, exactly 100
\* at the end; the probability of the selected digit is strictly the largest
\* and never decreases during the run
C35_Probabilities ==
    /\ [](cnn.mounted /\ cnn.processing =>
            Confident(cnn.probs, cnn.selectedDigit[1]))
    /\ [][PipelineEnds => /\ Confident(cnn'.probs, cnn.selectedDigit[1])
                          /\ SumOf(cnn'.probs) = 100]_vars
    /\ [][cnn.mounted /\ cnn.processing =>
            cnn'.probs[cnn.selectedDigit[1]] >= cnn.probs[cnn.selectedDigit[1]]]_vars

C35_Witness ==
    /\ cnn.mounted /\ hist.cb = "end"
    /\ cnn.selectedDigit = <<7>>
    /\ cnn.probs = [d \in Digits |-> IF d = 7 THEN 91 ELSE 1]

====
